---- MODULE Spec2Model ----
(***************************************************************************)
(* A model of g10/parse-packet.c: the OpenPGP packet reader of GNUPG.      *)
(* The byte source (iobuf) and the MPI reader are not part of the source   *)
(* file; they are modelled after their description in the specification.   *)
(* Bytes are the naturals 0..255; a byte source is a sequence of bytes     *)
(* together with a reader state.                                           *)
(***************************************************************************)
EXTENDS Integers, Sequences, FiniteSets, TLC

VARIABLES
    inp,        \* the bytes of the input source
    layout,     \* the packets the input was built from, as catalogue names
    io,         \* reader state of the input source
    out,        \* the bytes written to the output sink
    list_mode,  \* the static list_mode flag
    pc,         \* the caller-facing operation in progress, or "idle"/"fatal"
    arg,        \* the arguments of the operation in progress
    rc,         \* the return code of the last completed dispatcher call
    skip,       \* the *skip flag of the last dispatcher call
    pkt,        \* the packet record filled by the last dispatcher call
    retpos,     \* *retpos as written by the last dispatcher call
    hd,         \* the header decoded by the last dispatcher call, while
                \* nothing else has read the source since
    before,     \* reader state at the start of the last dispatcher call
    ret,        \* the last completed operation and the value it returned
    sub         \* a call of parse_sig_subpkt from outside the file: its
                \* buffer and reqtype, and what it returned

vars == <<inp, layout, io, out, list_mode, pc, arg, rc, skip, pkt,
          retpos, hd, before, ret, sub>>

(***************************************************************************)
(* Program constants.                                                      *)
(***************************************************************************)
PKT_PUBKEY_ENC == 1
PKT_SIGNATURE == 2
PKT_SYMKEY_ENC == 3
PKT_ONEPASS_SIG == 4
PKT_SECRET_CERT == 5
PKT_PUBLIC_CERT == 6
PKT_SECKEY_SUBCERT == 7
PKT_COMPRESSED == 8
PKT_ENCRYPTED == 9
PKT_PLAINTEXT == 11
PKT_RING_TRUST == 12
PKT_USER_ID == 13
PKT_PUBKEY_SUBCERT == 14
PKT_OLD_COMMENT == 16
PKT_COMMENT == 61

G10ERR_UNKNOWN_PACKET == 2
G10ERR_INVALID_PACKET == 14
G10ERR_READ_FILE == 26
G10ERR_WRITE_FILE == 27

PUBKEY_ALGO_RSA == 1
PUBKEY_ALGO_RSA_E == 2
PUBKEY_ALGO_RSA_S == 3
PUBKEY_ALGO_ELGAMAL_E == 16
PUBKEY_ALGO_DSA == 17
PUBKEY_ALGO_ELGAMAL == 20
CIPHER_ALGO_BLOWFISH160 == 42
DIGEST_ALGO_MD5 == 1
DIGEST_ALGO_RMD160 == 3
SIGSUBPKT_SIG_CREATED == 2
SIGSUBPKT_ISSUER == 16

is_RSA(a) == a \in {PUBKEY_ALGO_RSA, PUBKEY_ALGO_RSA_E, PUBKEY_ALGO_RSA_S}
is_ELGAMAL(a) == a \in {PUBKEY_ALGO_ELGAMAL, PUBKEY_ALGO_ELGAMAL_E}

\* unsigned long and size_t are 32-bit words.  A word is represented by the
\* integer in -2^31 .. 2^31-1 congruent to it modulo 2^32, and handled by
\* its two 16-bit halves
Lo16(x) == x % 65536
Hi16(x) == ((x - Lo16(x)) \div 65536) % 65536
Word(hi, lo) == (IF hi >= 32768 THEN hi - 65536 ELSE hi) * 65536 + lo

\* a - b and a + b on words
USub(a, b) ==
    LET l == Lo16(a) - Lo16(b)
        h == Hi16(a) - Hi16(b) - (IF l < 0 THEN 1 ELSE 0)
    IN  Word(h % 65536, l % 65536)

UAdd(a, b) ==
    LET l == Lo16(a) + Lo16(b)
        h == Hi16(a) + Hi16(b) + (IF l >= 65536 THEN 1 ELSE 0)
    IN  Word(h % 65536, l % 65536)

\* a < b on words
ULt(a, b) == IF (a < 0) = (b < 0) THEN a < b ELSE b < 0

UMin(a, b) == IF ULt(a, b) THEN a ELSE b

\* the word with the bytes b1 b2 b3 b4, most significant first
U32(b1, b2, b3, b4) == Word(b1 * 256 + b2, b3 * 256 + b4)

\* the size of the local copy buffer of copy_packet
CopyBufSize == 100

Min(a, b) == IF a < b THEN a ELSE b

(***************************************************************************)
(* The byte source.  A reader state has the raw offset pos, the mode       *)
(* ("none", "block" or "partial"), for partial mode the bytes left in the  *)
(* current chunk and whether that chunk is the last one, and the flag      *)
(* fatal, set when a read that must not meet the end of the stream met it. *)
(***************************************************************************)
IobufOpen == [pos |-> 0, mode |-> "none", chunk |-> 0, last |-> FALSE,
              fatal |-> FALSE]

iobuf_tell(s) == s.pos

iobuf_in_block_mode(s) == s.mode # "none"

iobuf_set_block_mode(s, on) ==
    IF on THEN [s EXCEPT !.mode = "block"]
          ELSE [s EXCEPT !.mode = "none", !.chunk = 0, !.last = FALSE]

iobuf_set_partial_block_mode(s, len) ==
    [s EXCEPT !.mode = "partial", !.chunk = len, !.last = FALSE]

\* the next byte of the underlying stream, whatever the mode
RawGet(d, s) ==
    IF s.pos < Len(d)
      THEN [c |-> d[s.pos + 1], s |-> [s EXCEPT !.pos = @ + 1]]
      ELSE [c |-> -1, s |-> s]

\* end of a block or partial body: the mode is left
LeaveMode(s) == [s EXCEPT !.mode = "none", !.chunk = 0, !.last = FALSE]

\* a chunk boundary of partial mode: the next length byte decides
RECURSIVE PartialGet(_, _)
PartialGet(d, s) ==
    LET InChunk(r) ==
            IF r.c = -1 THEN [c |-> -1, s |-> LeaveMode(s)]
            ELSE [c |-> r.c, s |-> [r.s EXCEPT !.chunk = USub(@, 1)]]
        TwoByte(b, b2) ==
            IF b2.c = -1 THEN [c |-> -1, s |-> LeaveMode(b2.s)]
            ELSE PartialGet(d, [b2.s EXCEPT
                   !.chunk = (b.c - 192) * 256 + b2.c + 192, !.last = TRUE])
        FourByte(b) ==
            IF Len(d) - b.s.pos < 4
              THEN [c |-> -1, s |-> LeaveMode([b.s EXCEPT !.pos = Len(d)])]
              ELSE PartialGet(d, [b.s EXCEPT !.pos = @ + 4,
                     !.chunk = U32(d[b.s.pos + 1], d[b.s.pos + 2],
                                   d[b.s.pos + 3], d[b.s.pos + 4]),
                     !.last = TRUE])
        Boundary(b) ==
            IF b.c = -1 THEN [c |-> -1, s |-> LeaveMode(s)]
            ELSE IF b.c >= 224 /\ b.c <= 254
              THEN PartialGet(d, [b.s EXCEPT !.chunk = 2 ^ (b.c - 224)])
            ELSE IF b.c < 192
              THEN PartialGet(d, [b.s EXCEPT !.chunk = b.c, !.last = TRUE])
            ELSE IF b.c < 224 THEN TwoByte(b, RawGet(d, b.s))
            ELSE FourByte(b)
    IN  IF s.chunk # 0 THEN InChunk(RawGet(d, s))
        ELSE IF s.last THEN [c |-> -1, s |-> LeaveMode(s)]
        ELSE Boundary(RawGet(d, s))

\* iobuf_get: the next byte of the body, or -1 at its end
iobuf_get(d, s) ==
    LET Block(r) == IF r.c = -1 THEN [c |-> -1, s |-> LeaveMode(s)] ELSE r
    IN  IF s.mode = "partial" THEN PartialGet(d, s)
        ELSE IF s.mode = "block" THEN Block(RawGet(d, s))
        ELSE RawGet(d, s)

\* iobuf_get_noeof: a byte, or failure at the end of the stream
iobuf_get_noeof(d, s) ==
    LET Got(r) == IF r.c = -1 THEN [c |-> 0, s |-> [r.s EXCEPT !.fatal = TRUE]]
                  ELSE r
    IN  Got(iobuf_get(d, s))

\* the end of the body was met by a bulk read that returned bytes: the
\* end-of-body indication is still to be delivered by the next read
PendingEof(s, m) == [s EXCEPT !.mode = m, !.chunk = 0, !.last = TRUE]

\* n successive iobuf_get_noeof, n a word: the bytes read (b) and the reader
\* after.  A run of bytes inside the stream or a chunk is taken at once.
RECURSIVE GetBytes(_, _, _)
GetBytes(d, s, n) ==
    LET rest == Len(d) - s.pos
        Run(k) == [b |-> SubSeq(d, s.pos + 1, s.pos + k),
                   s |-> [s EXCEPT !.pos = @ + k]]
        Short == [b |-> SubSeq(d, s.pos + 1, Len(d)),
                  s |-> [LeaveMode(s) EXCEPT !.pos = Len(d), !.fatal = TRUE]]
        More(b, t) == [b |-> b \o t.b, s |-> t.s]
        Chunk(k) ==
            More(SubSeq(d, s.pos + 1, s.pos + k),
                 GetBytes(d, [s EXCEPT !.pos = @ + k, !.chunk = USub(@, k)],
                          USub(n, k)))
        Got(r) == IF r.s.fatal THEN [b |-> <<>>, s |-> r.s]
                  ELSE More(<<r.c>>, GetBytes(d, r.s, USub(n, 1)))
    IN  IF n = 0 \/ s.fatal THEN [b |-> <<>>, s |-> s]
        ELSE IF s.mode # "partial"
          THEN IF ~ULt(rest, n) THEN Run(n) ELSE Short
        ELSE IF s.chunk # 0 /\ rest > 0
          THEN Chunk(UMin(UMin(n, s.chunk), rest))
        ELSE Got(iobuf_get_noeof(d, s))

\* iobuf_read(inp, buf, n): up to n bytes; n is the count read, -1 at the end
RECURSIVE ReadUpTo(_, _, _)
ReadUpTo(d, s, n) ==
    LET rest == Len(d) - s.pos
        Run(k) == [b |-> SubSeq(d, s.pos + 1, s.pos + k),
                   s |-> [s EXCEPT !.pos = @ + k]]
        Short == [b |-> SubSeq(d, s.pos + 1, Len(d)),
                  s |-> PendingEof([s EXCEPT !.pos = Len(d)], s.mode)]
        More(b, t) == [b |-> b \o t.b, s |-> t.s]
        Chunk(k) ==
            More(SubSeq(d, s.pos + 1, s.pos + k),
                 ReadUpTo(d, [s EXCEPT !.pos = @ + k, !.chunk = USub(@, k)],
                          n - k))
        Got(r) == IF r.c = -1 THEN [b |-> <<>>, s |-> PendingEof(r.s, s.mode)]
                  ELSE More(<<r.c>>, ReadUpTo(d, r.s, n - 1))
    IN  IF n = 0 THEN [b |-> <<>>, s |-> s]
        ELSE IF s.mode = "none" THEN Run(Min(n, rest))
        ELSE IF s.mode = "block" THEN IF rest >= n THEN Run(n) ELSE Short
        ELSE IF s.chunk # 0 /\ rest > 0 THEN Chunk(UMin(s.chunk, Min(n, rest)))
        ELSE Got(iobuf_get(d, s))
\* a read that returns no byte at the end of a body ends the mode
iobuf_read(d, s, n) ==
    LET Read(r) == IF Len(r.b) = 0 /\ n > 0
                     THEN [n |-> -1, b |-> <<>>, s |-> LeaveMode(r.s)]
                     ELSE [n |-> Len(r.b), b |-> r.b, s |-> r.s]
    IN  Read(ReadUpTo(d, s, n))

\* iobuf_write(out, buf, n): 0 when the sink took the bytes, -1 otherwise
iobuf_write(o, ok, bytes) ==
    IF ok THEN [r |-> 0, o |-> o \o bytes] ELSE [r |-> -1, o |-> o]

read_16(d, s) ==
    LET Read(r) == [v |-> IF r.s.fatal THEN 0 ELSE r.b[1] * 256 + r.b[2],
                    s |-> r.s]
    IN  Read(GetBytes(d, s, 2))

read_32(d, s) ==
    LET Read(r) ==
            [v |-> IF r.s.fatal THEN 0 ELSE U32(r.b[1], r.b[2], r.b[3], r.b[4]),
             s |-> r.s]
    IN  Read(GetBytes(d, s, 4))
buffer_to_u32(b) == U32(b[1], b[2], b[3], b[4])

(***************************************************************************)
(* The header decoder: the first part of parse().  The result has st = 0   *)
(* for a decoded header, -1 for the end of the stream and an error code    *)
(* otherwise; hdr holds the captured header bytes.                         *)
(***************************************************************************)
Header(st, pkttype, pktlen, hdr, pgp3, s) ==
    [st |-> st, pkttype |-> pkttype, pktlen |-> pktlen, hdr |-> hdr,
     hdrlen |-> Len(hdr), pgp3 |-> pgp3, s |-> s]

\* new format: lines 219-250
NewFormatLength(d, s1, ctb) ==
    LET pkttype == ctb % 64
        TwoByte(c, r2) ==
            IF r2.c = -1
              THEN Header(G10ERR_INVALID_PACKET, pkttype, (c - 192) * 256,
                          <<ctb, c>>, TRUE, r2.s)
              ELSE Header(0, pkttype, (c - 192) * 256 + r2.c + 192,
                          <<ctb, c, r2.c>>, TRUE, r2.s)
        FourByte(c, r3, r4) ==
            IF r3.s.fatal
              THEN Header(0, pkttype, 0, <<ctb, c>> \o r3.b, TRUE, r3.s)
            ELSE IF r4.c = -1
              THEN Header(G10ERR_INVALID_PACKET, pkttype,
                          U32(r3.b[1], r3.b[2], r3.b[3], 0),
                          <<ctb, c>> \o r3.b, TRUE, r4.s)
            ELSE Header(0, pkttype, U32(r3.b[1], r3.b[2], r3.b[3], r4.c),
                        <<ctb, c>> \o r3.b \o <<r4.c>>, TRUE, r4.s)
        ThreeBytes(c, r3) == FourByte(c, r3, iobuf_get(d, r3.s))
        First(r1) ==
            IF r1.c = -1
              THEN Header(G10ERR_INVALID_PACKET, pkttype, 0, <<ctb>>, TRUE, r1.s)
            ELSE IF r1.c < 192
              THEN Header(0, pkttype, r1.c, <<ctb, r1.c>>, TRUE, r1.s)
            ELSE IF r1.c < 224 THEN TwoByte(r1.c, iobuf_get(d, r1.s))
            ELSE IF r1.c < 255 THEN ThreeBytes(r1.c, GetBytes(d, r1.s, 3))
            ELSE Header(0, pkttype, 0, <<ctb, r1.c>>, TRUE,
                        iobuf_set_partial_block_mode(r1.s, 0))
    IN  First(iobuf_get(d, s1))

\* the length field of the old format: lines 261-264
\* pktlen |= byte, the shift left out
Shl8_dropped(x) == x

\* pktlen <<= 8 on a word
Shl8(x) == Word((Hi16(x) % 256) * 256 + (Lo16(x) \div 256), (Lo16(x) % 256) * 256)

RECURSIVE BigEndian(_)
BigEndian(b) ==
    IF Len(b) = 0 THEN 0
    ELSE Shl8(BigEndian(SubSeq(b, 1, Len(b) - 1))) + b[Len(b)]

\* old format: lines 253-265
OldFormatLength(d, s1, ctb) ==
    LET pkttype == (ctb \div 4) % 16
        Length(r) == Header(0, pkttype, IF r.s.fatal THEN 0 ELSE BigEndian(r.b),
                            <<ctb>> \o r.b, FALSE, r.s)
    IN  IF ctb % 4 = 3
          THEN Header(0, pkttype, 0, <<ctb>>, FALSE,
                      IF pkttype # PKT_COMPRESSED
                        THEN iobuf_set_block_mode(s1, TRUE) ELSE s1)
          ELSE Length(GetBytes(d, s1, 2 ^ (ctb % 4)))

\* lines 208-266
DecodeHeader(d, s0) ==
    LET Ctb(r0) ==
            IF r0.c = -1 THEN Header(-1, 0, 0, <<>>, FALSE, r0.s)
            ELSE IF r0.c \div 128 = 0
              THEN Header(G10ERR_INVALID_PACKET, 0, 0, <<r0.c>>, FALSE, r0.s)
            ELSE IF (r0.c \div 64) % 2 = 1 THEN NewFormatLength(d, r0.s, r0.c)
            ELSE OldFormatLength(d, r0.s, r0.c)
    IN  Ctb(iobuf_get(d, s0))

(***************************************************************************)
(* Skipping and copying a body.                                            *)
(***************************************************************************)
\* while( iobuf_get(inp) != -1 ) ;
RECURSIVE DrainBlock(_, _)
DrainBlock(d, s) ==
    LET Got(r) == IF r.c = -1 THEN r.s ELSE DrainBlock(d, r.s)
        Chunk(k) ==
            DrainBlock(d, [s EXCEPT !.pos = @ + k, !.chunk = USub(@, k)])
    IN  IF s.mode = "none" THEN [s EXCEPT !.pos = Len(d)]
        ELSE IF s.mode = "block" THEN LeaveMode([s EXCEPT !.pos = Len(d)])
        ELSE IF s.chunk # 0 /\ Len(d) > s.pos
          THEN Chunk(UMin(s.chunk, Len(d) - s.pos))
        ELSE Got(iobuf_get(d, s))

\* for( ; pktlen; pktlen-- ) iobuf_get(inp);  outside block mode
DrainCount(d, s, pktlen) ==
    [s EXCEPT !.pos = IF ULt(pktlen, Len(d) - @) THEN @ + pktlen ELSE Len(d)]

skip_rest(d, s, pktlen) ==
    IF iobuf_in_block_mode(s) THEN DrainBlock(d, s)
    ELSE DrainCount(d, s, pktlen)

skip_packet(d, s, pkttype, pktlen, lm) ==
    IF lm /\ pkttype # 0
      THEN IF iobuf_in_block_mode(s) THEN DrainBlock(d, s)
           ELSE DrainCount(d, s, pktlen)
      ELSE skip_rest(d, s, pktlen)

\* while( (n = iobuf_read( inp, buf, 100 )) != -1 ) iobuf_write(out, buf, n)
RECURSIVE CopyToEof(_, _, _, _)
CopyToEof(d, s, o, ok) ==
    LET Wrote(r, w) ==
            IF w.r # 0 THEN [rc |-> G10ERR_WRITE_FILE, s |-> r.s, o |-> w.o]
            ELSE CopyToEof(d, r.s, w.o, ok)
        Read(r) == IF r.n = -1 THEN [rc |-> 0, s |-> r.s, o |-> o]
                   ELSE Wrote(r, iobuf_write(o, ok, r.b))
    IN  Read(iobuf_read(d, s, CopyBufSize))

\* for( ; pktlen; pktlen -= n ) { n = iobuf_read(...); iobuf_write(...); }
RECURSIVE CopyCount(_, _, _, _, _)
CopyCount(d, s, o, ok, pktlen) ==
    LET Wrote(r, w) ==
            IF w.r # 0 THEN [rc |-> G10ERR_WRITE_FILE, s |-> r.s, o |-> w.o]
            ELSE CopyCount(d, r.s, w.o, ok, USub(pktlen, r.n))
        Read(r) == IF r.n = -1 THEN [rc |-> G10ERR_READ_FILE, s |-> r.s, o |-> o]
                   ELSE Wrote(r, iobuf_write(o, ok, r.b))
    IN  IF pktlen = 0 THEN [rc |-> 0, s |-> s, o |-> o]
        ELSE Read(iobuf_read(d, s, UMin(pktlen, CopyBufSize)))
copy_packet(d, s, o, ok, pkttype, pktlen) ==
    IF iobuf_in_block_mode(s) THEN CopyToEof(d, s, o, ok)
    ELSE IF pktlen = 0 /\ pkttype = PKT_COMPRESSED THEN CopyToEof(d, s, o, ok)
    ELSE CopyCount(d, s, o, ok, pktlen)

(***************************************************************************)
(* The MPI reader: a 16-bit bit count, then ceil(bits/8) value bytes.  n   *)
(* is the number of bytes consumed; ok is FALSE when the prefix or the     *)
(* value is cut short.                                                     *)
(***************************************************************************)
mpi_read(d, s) ==
    LET Value(nbytes, v) == [ok |-> Len(v.b) = nbytes, val |-> v.b,
                             n |-> 2 + Len(v.b), s |-> v.s]
        Bytes(p, nbytes) == Value(nbytes, ReadUpTo(d, p.s, nbytes))
        Prefix(p) ==
            IF Len(p.b) < 2
              THEN [ok |-> FALSE, val |-> <<>>, n |-> Len(p.b), s |-> p.s]
              ELSE Bytes(p, (p.b[1] * 256 + p.b[2] + 7) \div 8)
    IN  Prefix(ReadUpTo(d, s, 2))

\* k successive  n = pktlen; x = mpi_read(inp, &n, 0); pktlen -= n;
RECURSIVE ReadMpis(_, _, _, _)
ReadMpis(d, s, pktlen, k) ==
    LET Rest(r, t) == [m |-> <<r.val>> \o t.m, s |-> t.s, pktlen |-> t.pktlen]
        One(r) == Rest(r, ReadMpis(d, r.s, USub(pktlen, r.n), k - 1))
    IN  IF k = 0 THEN [m |-> <<>>, s |-> s, pktlen |-> pktlen]
        ELSE One(mpi_read(d, s))

\* the i-th byte of what was read, 0 when the read was cut short
Byte(b, i) == IF i <= Len(b) THEN b[i] ELSE 0

U32At(b, i) == U32(Byte(b, i), Byte(b, i + 1), Byte(b, i + 2), Byte(b, i + 3))

\* the result of a body parser: return code, reader state, packet record
Body(r, s, p) == [rc |-> r, s |-> s, pkt |-> p]

NoPacket == [kind |-> "none"]

\* A body parser at work: the reader, what is left of pktlen, and the body
\* bytes read so far
Cursor(s, pktlen) == [s |-> s, len |-> pktlen, b |-> <<>>]

\* n times  x = iobuf_get_noeof(inp); pktlen--;
Take(d, c, n) ==
    LET Got(r) == [s |-> r.s, len |-> USub(c.len, n), b |-> c.b \o r.b]
    IN  Got(GetBytes(d, c.s, n))

\* leave: skip_rest(inp, pktlen); return rc;
Leave(d, c, r, p) ==
    Body(r, IF c.s.fatal THEN c.s ELSE skip_rest(d, c.s, c.len), p)

(***************************************************************************)
(* Body parsers.                                                           *)
(***************************************************************************)
\* every salted mode taken to need the 12 bytes of salt and count
S2kMinlen_count(s2kmode) == IF s2kmode = 0 THEN 0 ELSE 12

\* switch( s2kmode ): the bytes of salt and count of the modes 0, 1 and 4
S2kMinlen(s2kmode) == IF s2kmode = 0 THEN 0 ELSE IF s2kmode = 1 THEN 8 ELSE 12

\* assert_failed tells that assert( !pktlen ) stopped the process
parse_symkeyenc(d, s, pkttype, pktlen, lm) ==
    LET s2kmode(c) == Byte(c.b, 3)
        minlen(c) == S2kMinlen(s2kmode(c))
        \* c: after the four fixed bytes; cc: after salt and count
        SesKey(c, cc, ck) ==
            LET k == [kind |-> "symkey_enc", version |-> Byte(c.b, 1),
                      cipher_algo |-> Byte(c.b, 2), s2k_mode |-> s2kmode(c),
                      s2k_hash_algo |-> Byte(c.b, 4),
                      s2k_salt |-> SubSeq(cc.b, 5, Min(12, Len(cc.b))),
                      s2k_count |-> IF s2kmode(c) = 4 THEN U32At(cc.b, 13)
                                    ELSE 0,
                      seskeylen |-> USub(c.len, minlen(c)),
                      seskey |-> SubSeq(ck.b, Len(cc.b) + 1, Len(ck.b)),
                      assert_failed |-> FALSE]
            IN  IF ck.s.fatal THEN Body(0, ck.s, k)
                ELSE IF ck.len # 0
                  THEN Body(0, [ck.s EXCEPT !.fatal = TRUE],
                            [k EXCEPT !.assert_failed = TRUE])
                ELSE Leave(d, ck, 0, k)
        Count(c, cc) ==
            SesKey(c, cc, Take(d, cc, UMin(USub(c.len, minlen(c)), cc.len)))
        Salt(c, cs) ==
            Count(c, IF s2kmode(c) = 4 THEN Take(d, cs, 4) ELSE cs)
        S2k(c) ==
            IF c.s.fatal THEN Body(0, c.s, NoPacket)
            ELSE IF s2kmode(c) \notin {0, 1, 4} THEN Leave(d, c, 0, NoPacket)
            ELSE IF ULt(c.len, minlen(c)) THEN Leave(d, c, 0, NoPacket)
            ELSE Salt(c, IF s2kmode(c) = 0 THEN c ELSE Take(d, c, UMin(8, c.len)))
        Version(c) ==
            IF c.s.fatal THEN Body(0, c.s, NoPacket)
            ELSE IF Byte(c.b, 1) # 4 THEN Leave(d, c, 0, NoPacket)
            ELSE IF ULt(200, c.len) THEN Leave(d, c, 0, NoPacket)
            ELSE S2k(Take(d, c, 3))
    IN  IF ULt(pktlen, 4) THEN Leave(d, Cursor(s, pktlen), 0, NoPacket)
        ELSE Version(Take(d, Cursor(s, pktlen), 1))

parse_pubkeyenc(d, s, pkttype, pktlen, lm) ==
    LET k0 == [kind |-> "pubkey_enc"]
        nmpi(algo) == IF is_ELGAMAL(algo) THEN 2 ELSE IF is_RSA(algo) THEN 1
                      ELSE 0
        Mpis(c, m) ==
            Body(0, skip_rest(d, m.s, m.pktlen),
                 [kind |-> "pubkey_enc", version |-> Byte(c.b, 1),
                  keyid |-> <<U32At(c.b, 2), U32At(c.b, 6)>>,
                  pubkey_algo |-> Byte(c.b, 10), mpi |-> m.m])
        Fields(c) ==
            IF c.s.fatal
              THEN Body(0, c.s, [kind |-> "pubkey_enc", version |-> Byte(c.b, 1)])
              ELSE Mpis(c, ReadMpis(d, c.s, c.len, nmpi(Byte(c.b, 10))))
        Version(c) ==
            IF c.s.fatal THEN Body(0, c.s, k0)
            ELSE IF Byte(c.b, 1) # 2 /\ Byte(c.b, 1) # 3
              THEN Leave(d, c, 0,
                         [kind |-> "pubkey_enc", version |-> Byte(c.b, 1)])
            ELSE Fields(Take(d, c, 9))
    IN  IF ULt(pktlen, 12) THEN Leave(d, Cursor(s, pktlen), 0, k0)
        ELSE Version(Take(d, Cursor(s, pktlen), 1))

parse_onepass_sig(d, s, pkttype, pktlen, lm) ==
    LET k0 == [kind |-> "onepass_sig"]
        Fields(c) ==
            IF c.s.fatal THEN Body(0, c.s, k0)
            ELSE Leave(d, c, 0,
                   [kind |-> "onepass_sig", sig_class |-> Byte(c.b, 2),
                    digest_algo |-> Byte(c.b, 3), pubkey_algo |-> Byte(c.b, 4),
                    keyid |-> <<U32At(c.b, 5), U32At(c.b, 9)>>,
                    last |-> Byte(c.b, 13)])
        Version(c) ==
            IF c.s.fatal THEN Body(0, c.s, k0)
            ELSE IF Byte(c.b, 1) # 3 THEN Leave(d, c, 0, k0)
            ELSE Fields(Take(d, c, 12))
    IN  IF ULt(pktlen, 13) THEN Leave(d, Cursor(s, pktlen), 0, k0)
        ELSE Version(Take(d, Cursor(s, pktlen), 1))

parse_user_id(d, s, pkttype, pktlen, lm) ==
    LET Name(f) == Body(0, f.s, [kind |-> "user_id", len |-> pktlen,
                                 name |-> f.b])
    IN  Name(GetBytes(d, s, pktlen))

parse_comment(d, s, pkttype, pktlen, lm) ==
    LET Data(f) == Body(0, f.s, [kind |-> "comment", len |-> pktlen,
                                 data |-> f.b])
    IN  Data(GetBytes(d, s, pktlen))

\* parse_trust returns nothing: the caller keeps its own rc
parse_trust(d, s, pkttype, pktlen, lm) == GetBytes(d, s, 1).s

\* for( i=0; i < namelen; i++ ) if( (c=iobuf_get(inp)) == -1 ) break;
GetName(d, s, n) ==
    LET Got(r) == IF Len(r.b) < n THEN [b |-> r.b, s |-> LeaveMode(r.s)] ELSE r
    IN  Got(ReadUpTo(d, s, n))
parse_plaintext(d, s, pkttype, pktlen, lm) ==
    LET len1 == IF pktlen = 0 THEN 0 ELSE USub(pktlen, 1)
        len2 == IF len1 = 0 THEN 0 ELSE USub(len1, 1)
        Stamp(f1, nm, len3, f3) ==
            Body(0, f3.s,
                 [kind |-> "plaintext", mode |-> Byte(f1.b, 1),
                  namelen |-> Byte(f1.b, 2), name |-> nm.b,
                  timestamp |-> U32At(f3.b, 1),
                  len |-> IF len3 # 0 THEN USub(len3, 4) ELSE 0, buf |-> TRUE])
        Name(f1, nm, len3) == Stamp(f1, nm, len3, GetBytes(d, nm.s, 4))
        Counted(f1, n) == Name(f1, GetBytes(d, f1.s, n), USub(len2, n))
        Mode(f1) ==
            IF f1.s.fatal THEN Body(0, f1.s, NoPacket)
            ELSE IF len2 # 0
              THEN Counted(f1, IF ULt(4, len2)
                                 THEN UMin(Byte(f1.b, 2), USub(len2, 4)) ELSE 0)
            ELSE Name(f1, GetName(d, f1.s, Byte(f1.b, 2)), 0)
    IN  IF pktlen # 0 /\ ULt(pktlen, 6) THEN Body(0, s, NoPacket)
        ELSE Mode(GetBytes(d, s, 2))

parse_compressed(d, s, pkttype, pktlen, lm) ==
    LET Algorithm(f) == Body(0, f.s, [kind |-> "compressed", len |-> 0,
                                      algorithm |-> Byte(f.b, 1), buf |-> TRUE])
    IN  Algorithm(GetBytes(d, s, 1))
parse_encrypted(d, s, pkttype, pktlen, lm) ==
    IF pktlen # 0 /\ ULt(pktlen, 10)
      THEN Body(0, skip_rest(d, s, pktlen),
                [kind |-> "encrypted", len |-> pktlen, buf |-> FALSE])
      ELSE Body(0, s, [kind |-> "encrypted", len |-> pktlen, buf |-> TRUE])

(***************************************************************************)
(* The subpacket scanner.  A buffer is the stored area: two prefix bytes   *)
(* and the bytes read; NoBuffer stands for the NULL pointer.  Positions    *)
(* are indexes into the buffer; a read past its end yields the byte junk   *)
(* and sets oob.  The result has p = 0 for NULL, else the index of the     *)
(* first payload byte, and bug when BUG() is reached.                      *)
(***************************************************************************)
NoBuffer == <<>>

BufAt(buf, i, junk) == IF i <= Len(buf) THEN buf[i] ELSE junk

SubpktResult(p, n, oob, bug) == [p |-> p, n |-> n, oob |-> oob, bug |-> bug]

\* lines 624-642: a subpacket of the requested type starts at buf[i]
SubpktFound(buf, i, n, buflen, type, oob) ==
    LET n1 == USub(n, 1)
    IN  IF ULt(buflen, n1) THEN SubpktResult(0, 0, oob, FALSE)
        ELSE IF type = SIGSUBPKT_SIG_CREATED
          THEN SubpktResult(IF ULt(n1, 4) THEN 0 ELSE i + 1, n1, oob, FALSE)
        ELSE IF type = SIGSUBPKT_ISSUER
          THEN SubpktResult(IF ULt(n1, 8) THEN 0 ELSE i + 1, n1, oob, FALSE)
        ELSE SubpktResult(0, n1, oob, TRUE)

\* lines 567-623: buffer points at buf[i], buflen bytes are left
RECURSIVE SubpktLoop(_, _, _, _, _, _)
SubpktLoop(buf, i, buflen, reqtype, junk, oob) ==
    IF buflen = 0 THEN SubpktResult(0, 0, oob, FALSE)
    ELSE
      LET n0 == BufAt(buf, i, junk)
          five == n0 = 255
          two == n0 # 255 /\ n0 >= 192
          n == IF five
                 THEN U32(BufAt(buf, i + 1, junk), BufAt(buf, i + 2, junk),
                          BufAt(buf, i + 3, junk), BufAt(buf, i + 4, junk))
               ELSE IF two THEN (n0 - 192) * 256 + BufAt(buf, i + 1, junk) + 192
               ELSE n0
          \* buffer is advanced over the four length bytes, but not over
          \* the second byte of a two-byte length
          i2 == IF five THEN i + 5 ELSE i + 1
          buflen2 == IF five THEN buflen - 5 ELSE IF two THEN buflen - 2
                     ELSE buflen - 1
          type == BufAt(buf, i2, junk) % 128
          oob1 == oob \/ i > Len(buf)
          oob2 == oob1 \/ (five /\ i + 4 > Len(buf)) \/ (two /\ i + 1 > Len(buf))
          oob3 == oob2 \/ i2 > Len(buf)
      IN  IF five /\ buflen - 1 < 4 THEN SubpktResult(0, 0, oob1, FALSE)
          ELSE IF two /\ buflen - 1 < 2 THEN SubpktResult(0, 0, oob1, FALSE)
          ELSE IF ULt(buflen2, n) THEN SubpktResult(0, 0, oob2, FALSE)
          ELSE IF reqtype >= 0 /\ type = reqtype
            THEN SubpktFound(buf, i2, n, buflen2, type, oob3)
          ELSE SubpktLoop(buf, i2 + n, buflen2 - n, reqtype, junk, oob3)

parse_sig_subpkt(buf, reqtype, junk) ==
    IF buf = NoBuffer THEN SubpktResult(0, 0, FALSE, FALSE)
    ELSE SubpktLoop(buf, 3, buf[1] * 256 + buf[2], reqtype, junk, FALSE)

(***************************************************************************)
(* parse_signature                                                         *)
(***************************************************************************)
Signature0 ==
    [kind |-> "signature", version |-> 0, sig_class |-> 0, timestamp |-> 0,
     keyid |-> <<0, 0>>, pubkey_algo |-> 0, digest_algo |-> 0,
     hashed_data |-> NoBuffer, unhashed_data |-> NoBuffer,
     digest_start |-> <<0, 0>>, mpi |-> <<>>]

\* the two bytes stored in front of a subpacket area of n bytes
StoredPrefix(n) == <<(n * 256) % 256, n % 256>>

\* lines 683-699 and 700-716: one subpacket area.  st is 0, or the rc the
\* parser leaves with
ReadArea(d, s, pktlen) ==
    LET len1 == USub(pktlen, 2)
        Area(h, r) ==
            IF r.n # h.v
              THEN [st |-> -1, data |-> StoredPrefix(h.v) \o r.b, s |-> r.s,
                    pktlen |-> len1]
              ELSE [st |-> 0, data |-> StoredPrefix(h.v) \o r.b, s |-> r.s,
                    pktlen |-> USub(len1, h.v)]
        Length(h) ==
            IF h.s.fatal
              THEN [st |-> 0, data |-> NoBuffer, s |-> h.s, pktlen |-> len1]
            ELSE IF h.v > 10000
              THEN [st |-> G10ERR_INVALID_PACKET, data |-> NoBuffer, s |-> h.s,
                    pktlen |-> len1]
            ELSE IF h.v = 0
              THEN [st |-> 0, data |-> NoBuffer, s |-> h.s, pktlen |-> len1]
            ELSE Area(h, iobuf_read(d, h.s, h.v))
    IN  Length(read_16(d, s))

\* lines 719-799: from the sanity check to the end
SignatureTail(d, s, pktlen, sig, is_v4, junk) ==
    LET algo == sig.pubkey_algo
        nmpi == IF is_ELGAMAL(algo) \/ algo = PUBKEY_ALGO_DSA THEN 2
                ELSE IF is_RSA(algo) THEN 1 ELSE 0
        Created(sg, ts) ==
            IF is_v4 /\ ts.p # 0
              THEN [sg EXCEPT !.timestamp =
                      buffer_to_u32(SubSeq(sg.hashed_data, ts.p, ts.p + 3))]
              ELSE sg
        Issuer(sg, ki) ==
            IF is_v4 /\ ki.p # 0
              THEN [sg EXCEPT !.keyid =
                      <<buffer_to_u32(SubSeq(sg.unhashed_data, ki.p, ki.p + 3)),
                        buffer_to_u32(SubSeq(sg.unhashed_data, ki.p + 4,
                                             ki.p + 7))>>]
              ELSE sg
        Mpis(sg, m) ==
            Body(0, skip_rest(d, m.s, m.pktlen), [sg EXCEPT !.mpi = m.m])
        Digest(f) ==
            IF f.s.fatal THEN Body(0, f.s, sig)
            ELSE Mpis(Issuer(Created([sig EXCEPT !.digest_start =
                                        <<Byte(f.b, 1), Byte(f.b, 2)>>],
                                     parse_sig_subpkt(sig.hashed_data,
                                         SIGSUBPKT_SIG_CREATED, junk)),
                             parse_sig_subpkt(sig.unhashed_data,
                                 SIGSUBPKT_ISSUER, junk)),
                      ReadMpis(d, f.s, USub(pktlen, 2), nmpi))
    IN  IF ULt(pktlen, 5)
          THEN Body(G10ERR_INVALID_PACKET, skip_rest(d, s, pktlen), sig)
          ELSE Digest(GetBytes(d, s, 2))

\* lines 671-681 for version 2 and 3
SignatureV3(d, s, pktlen, sig, junk) ==
    LET Fields(f) ==
            IF f.s.fatal THEN Body(0, f.s, sig)
            ELSE SignatureTail(d, f.s, USub(pktlen, 16),
                     [sig EXCEPT !.sig_class = Byte(f.b, 2),
                                 !.timestamp = U32At(f.b, 3),
                                 !.keyid = <<U32At(f.b, 7), U32At(f.b, 11)>>,
                                 !.pubkey_algo = Byte(f.b, 15),
                                 !.digest_algo = Byte(f.b, 16)],
                     FALSE, junk)
    IN  Fields(GetBytes(d, s, 16))

\* lines 674-717 for version 4
SignatureV4(d, s, pktlen, sig, junk) ==
    LET Unhashed(sg, a2) ==
            IF a2.s.fatal THEN Body(0, a2.s, sg)
            ELSE IF a2.st # 0
              THEN Body(a2.st, skip_rest(d, a2.s, a2.pktlen),
                        [sg EXCEPT !.unhashed_data = a2.data])
            ELSE SignatureTail(d, a2.s, a2.pktlen,
                               [sg EXCEPT !.unhashed_data = a2.data], TRUE, junk)
        Hashed(sg, a1) ==
            IF a1.s.fatal THEN Body(0, a1.s, sg)
            ELSE IF a1.st # 0
              THEN Body(a1.st, skip_rest(d, a1.s, a1.pktlen),
                        [sg EXCEPT !.hashed_data = a1.data])
            ELSE Unhashed([sg EXCEPT !.hashed_data = a1.data],
                          ReadArea(d, a1.s, a1.pktlen))
        Fields(f) ==
            IF f.s.fatal THEN Body(0, f.s, sig)
            ELSE Hashed([sig EXCEPT !.sig_class = Byte(f.b, 1),
                                    !.pubkey_algo = Byte(f.b, 2),
                                    !.digest_algo = Byte(f.b, 3)],
                        ReadArea(d, f.s, USub(pktlen, 3)))
    IN  Fields(GetBytes(d, s, 3))

parse_signature(d, s, pkttype, pktlen, lm, junk) ==
    LET Version(c) ==
            IF c.s.fatal THEN Body(0, c.s, Signature0)
            ELSE IF Byte(c.b, 1) = 4
              THEN SignatureV4(d, c.s, c.len,
                               [Signature0 EXCEPT !.version = 4], junk)
            ELSE IF Byte(c.b, 1) # 2 /\ Byte(c.b, 1) # 3
              THEN Leave(d, c, 0, [Signature0 EXCEPT !.version = Byte(c.b, 1)])
            ELSE SignatureV3(d, c.s, c.len,
                             [Signature0 EXCEPT !.version = Byte(c.b, 1)], junk)
    IN  IF ULt(pktlen, 16) THEN Leave(d, Cursor(s, pktlen), 0, Signature0)
        ELSE Version(Take(d, Cursor(s, pktlen), 1))

(***************************************************************************)
(* parse_certificate                                                       *)
(***************************************************************************)
PublicCert0 ==
    [kind |-> "public_cert", timestamp |-> 0, valid_days |-> 0,
     hdrbytes |-> 0, version |-> 0, pubkey_algo |-> 0, mpi |-> <<>>]

SecretCert0 ==
    [kind |-> "secret_cert", timestamp |-> 0, valid_days |-> 0,
     hdrbytes |-> 0, version |-> 0, pubkey_algo |-> 0, mpi |-> <<>>,
     is_protected |-> 0, protect_algo |-> 0, s2k_mode |-> 0,
     s2k_hash_algo |-> 0, s2k_salt |-> <<0, 0, 0, 0, 0, 0, 0, 0>>,
     s2k_count |-> 0, iv |-> <<0, 0, 0, 0, 0, 0, 0, 0>>, secret |-> <<>>,
     csum |-> 0]

IsSecretType(pkttype) == pkttype = PKT_SECRET_CERT \/ pkttype = PKT_SECKEY_SUBCERT

\* byte temp[8] after b was read into its front: the rest is not initialized
Temp8(b, junk) == [i \in 1..8 |-> IF i <= Len(b) THEN b[i] ELSE junk]

Protect(r, s, pktlen, cert, leave) ==
    [rc |-> r, s |-> s, pktlen |-> pktlen, cert |-> cert, leave |-> leave]

\* lines 1007-1019 and 1139-1151: the IV of an ElGamal or DSA key
ProtectIv(d, s, pktlen, cert) ==
    LET Iv(f) == Protect(0, f.s, USub(pktlen, 8), [cert EXCEPT !.iv = f.b],
                         FALSE)
    IN  IF ULt(pktlen, 8)
          THEN Protect(G10ERR_INVALID_PACKET, s, pktlen, cert, TRUE)
          ELSE Iv(GetBytes(d, s, 8))

\* lines 942-995 and 1078-1131: protect.algo was 255
ProtectS2k(d, s, pktlen, cert, junk) ==
    LET len1 == USub(pktlen, 3)
        mode(f) == Byte(f.b, 2)
        salted(f) == mode(f) = 1 \/ mode(f) = 4
        nsalt(f) == IF salted(f) THEN UMin(8, len1) ELSE 0
        len2(f) == USub(len1, nsalt(f))
        c1(f) == [cert EXCEPT !.protect_algo = Byte(f.b, 1),
                              !.s2k_mode = mode(f),
                              !.s2k_hash_algo = Byte(f.b, 3)]
        c2(f, g) == IF salted(f)
                      THEN [c1(f) EXCEPT !.s2k_salt = Temp8(g.b, junk)]
                      ELSE c1(f)
        Count(f, g, h) ==
            IF h.s.fatal THEN Protect(0, h.s, USub(len2(f), 4), c2(f, g), TRUE)
            ELSE ProtectIv(d, h.s, USub(len2(f), 4),
                           [c2(f, g) EXCEPT !.s2k_count = h.v])
        Salt(f, g) ==
            IF g.s.fatal THEN Protect(0, g.s, len2(f), c1(f), TRUE)
            ELSE IF mode(f) \notin {0, 1, 4}
              THEN Protect(G10ERR_INVALID_PACKET, g.s, len2(f), c2(f, g), TRUE)
            ELSE IF mode(f) # 4 THEN ProtectIv(d, g.s, len2(f), c2(f, g))
            ELSE IF ULt(len2(f), 4)
              THEN Protect(G10ERR_INVALID_PACKET, g.s, len2(f), c2(f, g), TRUE)
            ELSE Count(f, g, read_32(d, g.s))
        Fields(f) ==
            IF f.s.fatal THEN Protect(0, f.s, len1, cert, TRUE)
            ELSE Salt(f, GetBytes(d, f.s, nsalt(f)))
    IN  IF ULt(pktlen, 3)
          THEN Protect(G10ERR_INVALID_PACKET, s, pktlen, cert, TRUE)
          ELSE Fields(GetBytes(d, s, 3))

\* lines 938-1022 (ElGamal) and 1074-1154 (DSA)
ProtectElgDsa(d, s, pktlen, cert, elg, junk) ==
    LET len1 == USub(pktlen, 1)
        Algo(f) ==
            LET algo == Byte(f.b, 1)
                c1 == [cert EXCEPT !.protect_algo = algo]
                c2 == [c1 EXCEPT !.is_protected = 1, !.s2k_count = 0]
                c3 == [c2 EXCEPT !.s2k_mode = 0,
                         !.s2k_hash_algo =
                            IF elg /\ algo = CIPHER_ALGO_BLOWFISH160
                              THEN DIGEST_ALGO_RMD160 ELSE DIGEST_ALGO_MD5]
            IN  IF f.s.fatal THEN Protect(0, f.s, len1, cert, TRUE)
                ELSE IF algo = 0 THEN Protect(0, f.s, len1, c1, FALSE)
                ELSE IF algo = 255 THEN ProtectS2k(d, f.s, len1, c2, junk)
                ELSE ProtectIv(d, f.s, len1, c3)
    IN  Algo(GetBytes(d, s, 1))

\* lines 1195-1212 (RSA)
ProtectRsa(d, s, pktlen, cert, junk) ==
    LET len1 == USub(pktlen, 1)
        niv == UMin(8, len1)
        Iv(f, g) ==
            IF g.s.fatal
              THEN Protect(0, g.s, USub(len1, niv),
                           [cert EXCEPT !.protect_algo = Byte(f.b, 1)], TRUE)
              ELSE Protect(0, g.s, USub(len1, niv),
                           [cert EXCEPT !.protect_algo = Byte(f.b, 1),
                              !.is_protected = 1,
                              !.iv = IF Byte(f.b, 1) = CIPHER_ALGO_BLOWFISH160
                                       THEN Temp8(g.b, junk) ELSE @],
                           FALSE)
        Algo(f) ==
            IF f.s.fatal THEN Protect(0, f.s, len1, cert, TRUE)
            ELSE IF Byte(f.b, 1) = 0
              THEN Protect(0, f.s, len1, [cert EXCEPT !.protect_algo = 0], FALSE)
            ELSE Iv(f, GetBytes(d, f.s, niv))
    IN  Algo(GetBytes(d, s, 1))

\* lines 897-1233: the algorithm specific part
CertificateKey(d, s, pktlen, pkttype, cert, algorithm, junk) ==
    LET npub == IF is_ELGAMAL(algorithm) THEN 3
                ELSE IF algorithm = PUBKEY_ALGO_DSA THEN 4
                ELSE IF is_RSA(algorithm) THEN 2 ELSE 0
        Csum(p, x, k) ==
            IF k.s.fatal THEN Body(0, k.s, [p.cert EXCEPT !.secret = x.m])
            ELSE Body(0, skip_rest(d, k.s, USub(x.pktlen, 2)),
                      [p.cert EXCEPT !.secret = x.m, !.csum = k.v])
        Secret(p, x) == Csum(p, x, read_16(d, x.s))
        Protection(p) ==
            IF p.s.fatal THEN Body(0, p.s, p.cert)
            ELSE IF p.leave
              THEN Body(p.rc, skip_rest(d, p.s, p.pktlen), p.cert)
            ELSE Secret(p, ReadMpis(d, p.s, p.pktlen,
                                    IF is_RSA(algorithm) THEN 4 ELSE 1))
        Public(m) ==
            IF npub = 0 \/ ~IsSecretType(pkttype)
              THEN Body(0, skip_rest(d, m.s, m.pktlen), [cert EXCEPT !.mpi = m.m])
            ELSE Protection(
                   IF is_RSA(algorithm)
                     THEN ProtectRsa(d, m.s, m.pktlen,
                                     [cert EXCEPT !.mpi = m.m], junk)
                     ELSE ProtectElgDsa(d, m.s, m.pktlen,
                                        [cert EXCEPT !.mpi = m.m],
                                        is_ELGAMAL(algorithm), junk))
    IN  Public(ReadMpis(d, s, pktlen, npub))

parse_certificate(d, s, pkttype, pktlen, hdrlen, lm, junk) ==
    LET cert0 == IF IsSecretType(pkttype) THEN SecretCert0 ELSE PublicCert0
        len1 == USub(pktlen, 1)
        Comment(cmt) ==
            IF cmt.fatal THEN Body(0, cmt, cert0)
            ELSE Body(0, skip_rest(d, cmt, IF lm THEN 0 ELSE len1), cert0)
        Fields(version, n, g) ==
            IF g.s.fatal THEN Body(0, g.s, cert0)
            ELSE CertificateKey(d, g.s, USub(len1, n), pkttype,
                     [cert0 EXCEPT !.timestamp = U32At(g.b, 1),
                        !.valid_days = IF version = 4 THEN 0
                                       ELSE Byte(g.b, 5) * 256 + Byte(g.b, 6),
                        !.hdrbytes = hdrlen, !.version = version,
                        !.pubkey_algo = Byte(g.b, n)],
                     Byte(g.b, n), junk)
        Counted(f, n) == Fields(Byte(f.b, 1), n, GetBytes(d, f.s, n))
        Version(f) ==
            IF f.s.fatal THEN Body(0, f.s, cert0)
            ELSE IF pkttype = PKT_PUBKEY_SUBCERT /\ Byte(f.b, 1) = 35
              THEN Comment(IF lm THEN GetBytes(d, f.s, len1).s ELSE f.s)
            ELSE IF Byte(f.b, 1) \notin {2, 3, 4}
              THEN Body(0, skip_rest(d, f.s, len1), cert0)
            ELSE IF ULt(len1, 11) THEN Body(0, skip_rest(d, f.s, len1), cert0)
            ELSE Counted(f, IF Byte(f.b, 1) = 4 THEN 5 ELSE 7)
    IN  Version(GetBytes(d, s, 1))

(***************************************************************************)
(* The dispatcher parse().  copy stands for a non-NULL out, wantpos for a  *)
(* non-NULL retpos; ok tells whether the sink accepts writes.  The result  *)
(* holds rc, *skip, the reader state, the sink contents, the packet        *)
(* record, *retpos (-1 when not written) and the decoded header.           *)
(***************************************************************************)
Parsed(r, sk, s, o, p, h) ==
    [rc |-> r, skip |-> sk, s |-> s, o |-> o, pkt |-> p,
     hd |-> [st |-> h.st, pkttype |-> h.pkttype, pktlen |-> h.pktlen,
             hdr |-> h.hdr, hdrlen |-> h.hdrlen, pgp3 |-> h.pgp3,
             mode |-> h.s.mode, chunk |-> h.s.chunk]]

Packet(pkttype, body) == [pkttype |-> pkttype, body |-> body]

\* the packet record before parse() has touched it
EmptyPacket == Packet(0, NoPacket)

KnownTypes ==
    {PKT_PUBLIC_CERT, PKT_PUBKEY_SUBCERT, PKT_SECRET_CERT, PKT_SECKEY_SUBCERT,
     PKT_SYMKEY_ENC, PKT_PUBKEY_ENC, PKT_SIGNATURE, PKT_ONEPASS_SIG,
     PKT_USER_ID, PKT_OLD_COMMENT, PKT_COMMENT, PKT_RING_TRUST, PKT_PLAINTEXT,
     PKT_COMPRESSED, PKT_ENCRYPTED}

\* lines 285-336: the switch over the packet type
Dispatch(d, h, o, lm, junk) ==
    LET t == h.pkttype
        n == h.pktlen
        Done(b) == Parsed(b.rc, 0, b.s, o, Packet(t, b.pkt), h)
    IN  Done(IF t \in {PKT_PUBLIC_CERT, PKT_PUBKEY_SUBCERT, PKT_SECRET_CERT,
                       PKT_SECKEY_SUBCERT}
               THEN parse_certificate(d, h.s, t, n, h.hdrlen, lm, junk)
             ELSE IF t = PKT_SYMKEY_ENC THEN parse_symkeyenc(d, h.s, t, n, lm)
             ELSE IF t = PKT_PUBKEY_ENC THEN parse_pubkeyenc(d, h.s, t, n, lm)
             ELSE IF t = PKT_SIGNATURE
               THEN parse_signature(d, h.s, t, n, lm, junk)
             ELSE IF t = PKT_ONEPASS_SIG
               THEN parse_onepass_sig(d, h.s, t, n, lm)
             ELSE IF t = PKT_USER_ID THEN parse_user_id(d, h.s, t, n, lm)
             ELSE IF t = PKT_OLD_COMMENT \/ t = PKT_COMMENT
               THEN parse_comment(d, h.s, t, n, lm)
             ELSE IF t = PKT_RING_TRUST
               THEN Body(G10ERR_UNKNOWN_PACKET, parse_trust(d, h.s, t, n, lm),
                         NoPacket)
             ELSE IF t = PKT_PLAINTEXT THEN parse_plaintext(d, h.s, t, n, lm)
             ELSE IF t = PKT_COMPRESSED THEN parse_compressed(d, h.s, t, n, lm)
             ELSE IF t = PKT_ENCRYPTED THEN parse_encrypted(d, h.s, t, n, lm)
             ELSE Body(G10ERR_UNKNOWN_PACKET, skip_packet(d, h.s, t, n, lm),
                       NoPacket))

\* lines 268-274: the copy mode
CopyMode(d, h, o, ok) ==
    LET Copied(c) == Parsed(c.rc, 0, c.s, c.o, EmptyPacket, h)
        Wrote(w) ==
            IF w.r = -1
              THEN Parsed(G10ERR_WRITE_FILE, 0, h.s, w.o, EmptyPacket, h)
              ELSE Copied(copy_packet(d, h.s, w.o, ok, h.pkttype, h.pktlen))
    IN  Wrote(iobuf_write(o, ok, h.hdr))

parse(d, s0, o, ok, lm, junk, reqtype, copy, do_skip) ==
    LET Decoded(h) ==
            IF h.st # 0 \/ h.s.fatal
              THEN Parsed(h.st, 0, h.s, o, EmptyPacket, h)
            ELSE IF copy /\ h.pkttype # 0 THEN CopyMode(d, h, o, ok)
            ELSE IF do_skip \/ h.pkttype = 0
                    \/ (reqtype # 0 /\ h.pkttype # reqtype)
              THEN Parsed(0, 1, skip_packet(d, h.s, h.pkttype, h.pktlen, lm),
                          o, EmptyPacket, h)
            ELSE Dispatch(d, h, o, lm, junk)
    IN  Decoded(DecodeHeader(d, s0))

(***************************************************************************)
(* The inputs.  A stream is a concatenation of packets of a catalogue;     *)
(* each entry gives the bytes on the wire, the type tag, the framing, the  *)
(* body as the wire format defines it, and whether the packet is           *)
(* well-formed.                                                            *)
(***************************************************************************)
MaxPkts == 2
MaxSkip == 2

Entry(bytes, type, frame, wf) ==
    [bytes |-> bytes, type |-> type, frame |-> frame, wf |-> wf]

\* a version 4 signature: creation time in the hashed area, issuer in the
\* unhashed area, one RSA MPI
SigV4Body ==
    <<4, 0, 1, 2,  0, 6, 5, 2, 95, 0, 0, 0,
      0, 10, 9, 16, 1, 35, 69, 103, 137, 171, 205, 239,  171, 205,  0, 8, 128>>

Catalogue ==
    [uid        |-> Entry(<<180, 2, 65, 66>>, PKT_USER_ID, "definite", TRUE),
     deleted    |-> Entry(<<128, 1, 7>>, 0, "definite", TRUE),
     marker     |-> Entry(<<168, 2, 80, 71>>, 10, "definite", TRUE),
     trust      |-> Entry(<<176, 1, 3>>, PKT_RING_TRUST, "definite", TRUE),
     trust2     |-> Entry(<<176, 2, 3, 4>>, PKT_RING_TRUST, "definite", FALSE),
     plaintext  |-> Entry(<<172, 7, 98, 0, 0, 0, 0, 1, 88>>, PKT_PLAINTEXT,
                          "definite", TRUE),
     ptshort    |-> Entry(<<172, 3, 98, 0, 0>>, PKT_PLAINTEXT, "definite",
                          FALSE),
     sig4       |-> Entry(<<136, 29>> \o SigV4Body, PKT_SIGNATURE, "definite",
                          TRUE),
     uid5       |-> Entry(<<205, 255, 0, 0, 0, 2, 65, 66>>, PKT_USER_ID,
                          "definite", TRUE),
     ptpartial  |-> Entry(<<203, 226, 0, 0, 0, 2, 0>>, PKT_PLAINTEXT,
                          "partial", TRUE),
     zindet     |-> Entry(<<163, 1, 120, 156>>, PKT_COMPRESSED,
                          "indeterminate", TRUE),
     mindet     |-> Entry(<<171, 180, 1, 65>>, 10, "indeterminate", TRUE),
     sig4cut    |-> Entry(<<136, 29, 4, 0, 1, 2, 0, 6, 5, 2>>, PKT_SIGNATURE,
                          "definite", FALSE)]

Names == DOMAIN Catalogue

\* an indeterminate-length body runs to the end of the stream
RECURSIVE Layouts(_)
Layouts(n) ==
    IF n = 0 THEN {<<>>}
    ELSE Layouts(n - 1) \cup
         {Append(l, p) : l \in {m \in Layouts(n - 1) : Len(m) = n - 1}, p \in Names}

RECURSIVE Flatten(_)
Flatten(l) ==
    IF Len(l) = 0 THEN <<>>
    ELSE Catalogue[l[1]].bytes \o Flatten(Tail(l))

\* the offset at which packet i of layout l starts (i = Len(l)+1: the end)
RECURSIVE StartOf(_, _)
StartOf(l, i) ==
    IF i = 1 THEN 0 ELSE StartOf(l, i - 1) + Len(Catalogue[l[i - 1]].bytes)

Boundaries(l) == {StartOf(l, i) : i \in 1..(Len(l) + 1)}

\* every packet is well-formed and only the last may run to the end
WellFormed(l) ==
    \A i \in 1..Len(l) :
        /\ Catalogue[l[i]].wf
        /\ Catalogue[l[i]].frame = "indeterminate" => i = Len(l)

(***************************************************************************)
(* The state machine: the caller-facing operations, one dispatcher call    *)
(* per step of their loops.                                                *)
(***************************************************************************)
JunkBytes == {0, 16}
SearchTypes == {PKT_USER_ID, PKT_SIGNATURE, PKT_RING_TRUST}

NoArg == [op |-> "none", reqtype |-> 0, n |-> 0, left |-> 0, stopoff |-> 0,
          ok |-> TRUE, start |-> 0]
NoHeader == Parsed(0, 0, IobufOpen, <<>>, EmptyPacket,
                   Header(0, 0, 0, <<>>, FALSE, IobufOpen)).hd

\* no call of the subpacket scanner from outside the file
NoScan ==
    [buffer |-> NoBuffer, area |-> <<>>, reqtype |-> 0, done |-> FALSE,
     res |-> SubpktResult(0, 0, FALSE, FALSE)]

InitWith(l, d) ==
    /\ sub = NoScan
    /\ layout = l
    /\ inp = d
    /\ io = IobufOpen
    /\ out = <<>>
    /\ list_mode = FALSE
    /\ pc = "idle"
    /\ arg = NoArg
    /\ rc = 0
    /\ skip = 0
    /\ pkt = EmptyPacket
    /\ retpos = -1
    /\ hd = NoHeader
    /\ before = IobufOpen
    /\ ret = [op |-> "none", val |-> 0]

Init == \E l \in Layouts(MaxPkts) : InitWith(l, Flatten(l))

\* the effect of one dispatcher call r on the state
Dispatched(r, wantpos) ==
    /\ io' = r.s
    /\ out' = r.o
    /\ rc' = r.rc
    /\ skip' = r.skip
    /\ pkt' = r.pkt
    /\ hd' = r.hd
    /\ before' = io
    /\ retpos' = IF wantpos THEN iobuf_tell(io) ELSE retpos

\* the operation goes on (more), or returns val, or the process is gone
Continue(r, more, val) ==
    IF r.s.fatal THEN pc' = "fatal" /\ UNCHANGED <<arg, ret>>
    ELSE IF more THEN UNCHANGED <<pc, arg, ret>>
    ELSE pc' = "idle" /\ ret' = [op |-> pc, val |-> val] /\ UNCHANGED arg

Return(val) ==
    /\ pc' = "idle"
    /\ ret' = [op |-> pc, val |-> val]
    /\ UNCHANGED <<io, out, rc, skip, pkt, hd, before, retpos, arg>>

\* plaintext, compressed and encrypted records lend the source to the
\* consumer of the payload: pt->buf = inp, zd->buf = inp, ed->buf = inp
Borrowed(p) ==
    p.body.kind \in {"plaintext", "compressed", "encrypted"} /\ p.body.buf

\* The caller enters an operation with fresh locals and a fresh packet
\* record, after the payload of a returned packet was read.  A source is
\* worked through with one operation: the caller repeats the call it began
\* with, with the same arguments, as the loops around these entry points do.
Call(op, a) ==
    /\ pc = "idle"
    /\ ~Borrowed(pkt)
    /\ \/ arg.op = "none"
       \/ [a EXCEPT !.start = 0, !.left = 0, !.op = op]
             = [arg EXCEPT !.start = 0, !.left = 0]
    /\ pc' = op
    /\ arg' = [a EXCEPT !.op = op]
    /\ rc' = 0
    /\ skip' = 0
    /\ pkt' = EmptyPacket
    /\ retpos' = -1
    /\ hd' = NoHeader
    /\ before' = io
    /\ UNCHANGED <<inp, layout, io, out, list_mode, ret, sub>>

\* the list mode is set at startup, before the source is read
set_packet_list_mode(mode) ==
    /\ pc = "idle"
    /\ ret.op = "none"
    /\ arg.op = "none"
    /\ list_mode' = mode
    /\ ret' = [op |-> "set_packet_list_mode", val |-> IF list_mode THEN 1 ELSE 0]
    /\ UNCHANGED <<inp, layout, io, out, pc, arg, rc, skip, pkt, retpos, hd,
                   before, sub>>

parse_packet_call ==
    Call("parse_packet", [NoArg EXCEPT !.start = iobuf_tell(io)])

\* do { rc = parse(...) } while( skip );      r: what the call of parse gives
parse_packet(r) ==
    /\ pc = "parse_packet"
    /\ Dispatched(r, FALSE)
    /\ Continue(r, r.skip = 1, r.rc)
    /\ UNCHANGED <<inp, layout, list_mode, sub>>

search_packet_call ==
    \E t \in SearchTypes :
        Call("search_packet",
             [NoArg EXCEPT !.reqtype = t, !.start = iobuf_tell(io)])

search_packet(r) ==
    /\ pc = "search_packet"
    /\ Dispatched(r, TRUE)
    /\ Continue(r, r.skip = 1, r.rc)
    /\ UNCHANGED <<inp, layout, list_mode, sub>>

copy_all_packets_call ==
    \E ok \in BOOLEAN :
        Call("copy_all_packets",
             [NoArg EXCEPT !.ok = ok, !.start = iobuf_tell(io)])

\* do { init_packet(&pkt); } while( !(rc = parse(...)) );
copy_all_packets(r) ==
    /\ pc = "copy_all_packets"
    /\ Dispatched(r, FALSE)
    /\ Continue(r, r.rc = 0, r.rc)
    /\ UNCHANGED <<inp, layout, list_mode, sub>>

StopOffsets(l) == Boundaries(l) \cup {b + 1 : b \in Boundaries(l)}

copy_some_packets_call ==
    \E ok \in BOOLEAN, stopoff \in StopOffsets(layout) :
        Call("copy_some_packets",
             [NoArg EXCEPT !.ok = ok, !.stopoff = stopoff,
                           !.start = iobuf_tell(io)])

copy_some_packets(r) ==
    /\ pc = "copy_some_packets"
    /\ IF iobuf_tell(io) >= arg.stopoff
         THEN Return(0)
         ELSE Dispatched(r, FALSE) /\ Continue(r, r.rc = 0, r.rc)
    /\ UNCHANGED <<inp, layout, list_mode, sub>>

skip_some_packets_call ==
    \E n \in 0..MaxSkip :
        Call("skip_some_packets",
             [NoArg EXCEPT !.n = n, !.left = n, !.start = iobuf_tell(io)])

\* for( ;n && !rc; n--) rc = parse(...);   rc is 0 before the first round
skip_some_packets(r) ==
    /\ pc = "skip_some_packets"
    /\ IF arg.left = 0
         THEN Return(0)
         ELSE /\ Dispatched(r, FALSE)
              /\ IF r.s.fatal THEN pc' = "fatal" /\ UNCHANGED <<arg, ret>>
                 ELSE IF arg.left > 1 /\ r.rc = 0
                   THEN pc' = pc /\ arg' = [arg EXCEPT !.left = @ - 1]
                        /\ UNCHANGED ret
                 ELSE pc' = "idle" /\ arg' = [arg EXCEPT !.left = @ - 1]
                      /\ ret' = [op |-> pc, val |-> r.rc]
    /\ UNCHANGED <<inp, layout, list_mode, sub>>

\* The consumer of a plaintext, compressed or encrypted packet reads the
\* payload through the borrowed handle: len bytes, or up to the end of the
\* body when no length is known.
read_payload ==
    /\ pc = "idle"
    /\ Borrowed(pkt)
    /\ io' = IF pkt.body.len # 0 /\ ~iobuf_in_block_mode(io)
               THEN DrainCount(inp, io, pkt.body.len)
               ELSE DrainBlock(inp, io)
    /\ pkt' = [pkt EXCEPT !.body.buf = FALSE]
    /\ hd' = NoHeader
    /\ before' = io'
    /\ ret' = [op |-> "read_payload", val |-> 0]
    /\ UNCHANGED <<inp, layout, out, list_mode, pc, arg, rc, skip, retpos,
                   sub>>

\* the call of parse the operation in progress makes: copy_all_packets and
\* copy_some_packets pass out, search_packet passes reqtype and retpos,
\* skip_some_packets passes do_skip; junk is what the uninitialized bytes
\* that reach a record hold
ParseWith(lm, junk) ==
    parse(inp, io, out, arg.ok, lm, junk, arg.reqtype,
          pc \in {"copy_all_packets", "copy_some_packets"},
          pc = "skip_some_packets")

ParseCall(junk) == ParseWith(list_mode, junk)

\* one round of the loop of the operation in progress
Step(r) ==
    \/ parse_packet(r)
    \/ search_packet(r)
    \/ copy_all_packets(r)
    \/ copy_some_packets(r)
    \/ skip_some_packets(r)

Next ==
    \/ \E mode \in BOOLEAN : set_packet_list_mode(mode)
    \/ read_payload
    \/ parse_packet_call
    \/ search_packet_call
    \/ copy_all_packets_call
    \/ copy_some_packets_call
    \/ skip_some_packets_call
    \/ \E junk \in JunkBytes : Step(ParseCall(junk))
Spec == Init /\ [][Next]_vars

(***************************************************************************)
(* Header probes: one header after the other format and length form, over  *)
(* a choice of length bytes, followed by the same few body bytes.  The     *)
(* operations are those of Spec.                                           *)
(***************************************************************************)
\* first length bytes of the new format, around every range boundary
FirstLengthBytes == {0, 1, 191, 192, 193, 223, 224, 226, 254, 255}

\* the bytes after the ctb (old format) or the first length byte (new)
LengthPatterns ==
    {<<0, 0, 0, 2>>, <<0, 0, 1, 0>>, <<0, 1, 0, 0>>, <<1, 0, 0, 0>>,
     <<255, 255, 255, 255>>, <<128, 0, 0, 1>>, <<2, 0, 3, 4>>, <<0, 0>>, <<>>}

ProbeTypes == {0, PKT_COMPRESSED, 10, PKT_USER_ID}

ProbeBody == <<65, 66>>

NewFormatProbes ==
    {<<192 + t, c>> \o p \o ProbeBody :
        t \in {10, PKT_USER_ID}, c \in FirstLengthBytes, p \in LengthPatterns}

OldFormatProbes ==
    {<<128 + 4 * t + l>> \o p \o ProbeBody :
        t \in ProbeTypes, l \in 0..3, p \in LengthPatterns}

InitHdr == \E d \in NewFormatProbes \cup OldFormatProbes : InitWith(<<>>, d)

SpecHdr == InitHdr /\ [][Next]_vars

(***************************************************************************)
(* Cut headers: the header probes, and with them sources that end inside   *)
(* a header or begin with a byte that is no ctb.                           *)
(***************************************************************************)
\* the proper, nonempty prefixes of the sequences of S
Prefixes(S) == UNION {{SubSeq(d, 1, k) : k \in 1..(Len(d) - 1)} : d \in S}

\* headers with the longest length field of their form, and no body
LongHeaders ==
    {<<192 + PKT_USER_ID, c>> \o p :
        c \in {192, 223, 224, 254, 255},
        p \in {<<0, 0, 0, 2>>, <<1, 0, 0, 0>>}}
    \cup {<<128 + 4 * t + l>> \o SubSeq(<<0, 0, 0, 2>>, 5 - 2 ^ l, 4) :
            t \in {10, PKT_USER_ID}, l \in 0..2}

NoCtbBytes == {0, 1, 52, 127}

CutProbes ==
    Prefixes(LongHeaders) \cup {<<b>> \o ProbeBody : b \in NoCtbBytes}

InitCut ==
    \E d \in NewFormatProbes \cup OldFormatProbes \cup CutProbes :
        InitWith(<<>>, d)

SpecCut == InitCut /\ [][Next]_vars

(***************************************************************************)
(* The subpacket scanner called on its own, as the code that checks and    *)
(* lists signatures calls it: on a buffer that holds the two bytes of the  *)
(* area's length and the area, a sequence of subpackets.                   *)
(***************************************************************************)
MaxSubpkts == 2

SIGSUBPKT_LIST_UNHASHED == -1

\* n bytes of payload, no two neighbours alike
Fill(n) == [i \in 1..n |-> (7 * i) % 251]

\* the length n of a subpacket in one, two or five bytes
LengthBytes(form, n) ==
    IF form = 1 THEN <<n>>
    ELSE IF form = 2 THEN <<192 + ((n - 192) \div 256), (n - 192) % 256>>
    ELSE <<255, 0, 0, n \div 256, n % 256>>

\* a subpacket: its bytes, the low seven bits of its type, the offset and
\* the length of its payload, and whether the bytes are a whole subpacket
Subpkt(form, type, payload) ==
    [bytes |-> LengthBytes(form, Len(payload) + 1) \o <<type>> \o payload,
     type |-> type % 128,
     at |-> (IF form = 1 THEN 1 ELSE form) + 1,
     len |-> Len(payload),
     wf |-> TRUE]

Broken(bytes) == [bytes |-> bytes, type |-> 0, at |-> 0, len |-> 0, wf |-> FALSE]

SubpktCatalogue ==
    [created   |-> Subpkt(1, SIGSUBPKT_SIG_CREATED, <<95, 0, 0, 1>>),
     createdc  |-> Subpkt(1, 128 + SIGSUBPKT_SIG_CREATED, <<95, 0, 0, 2>>),
     created5  |-> Subpkt(5, SIGSUBPKT_SIG_CREATED, <<95, 0, 0, 3>>),
     created2  |-> Subpkt(2, SIGSUBPKT_SIG_CREATED, Fill(191)),
     issuer    |-> Subpkt(1, SIGSUBPKT_ISSUER,
                          <<1, 35, 69, 103, 137, 171, 205, 239>>),
     issuer5   |-> Subpkt(5, SIGSUBPKT_ISSUER, Fill(8)),
     issuer2   |-> Subpkt(2, SIGSUBPKT_ISSUER, Fill(193)),
     expire    |-> Subpkt(1, 3, <<0, 0, 0, 9>>),
     notation2 |-> Subpkt(2, 20, Fill(200)),
     short     |-> Subpkt(1, SIGSUBPKT_SIG_CREATED, <<95, 0>>),
     empty     |-> Broken(<<0>>),
     overlong  |-> Broken(<<9, SIGSUBPKT_SIG_CREATED, 95>>)]

SubpktNames == DOMAIN SubpktCatalogue

RECURSIVE Areas(_)
Areas(n) ==
    IF n = 0 THEN {<<>>}
    ELSE Areas(n - 1) \cup
         {Append(a, p) : a \in {m \in Areas(n - 1) : Len(m) = n - 1},
                         p \in SubpktNames}

RECURSIVE AreaBytes(_)
AreaBytes(a) ==
    IF Len(a) = 0 THEN <<>>
    ELSE SubpktCatalogue[a[1]].bytes \o AreaBytes(Tail(a))

\* the buffer of an area: its length in two bytes, then its bytes
BufferOf(a) ==
    <<Len(AreaBytes(a)) \div 256, Len(AreaBytes(a)) % 256>> \o AreaBytes(a)

ScanTypes == {SIGSUBPKT_SIG_CREATED, SIGSUBPKT_ISSUER, SIGSUBPKT_LIST_UNHASHED}

InitScan ==
    /\ \E a \in Areas(MaxSubpkts) :
           sub = [NoScan EXCEPT !.buffer = BufferOf(a), !.area = a]
    /\ layout = <<>>
    /\ inp = <<>>
    /\ io = IobufOpen
    /\ out = <<>>
    /\ list_mode = FALSE
    /\ pc = "idle"
    /\ arg = NoArg
    /\ rc = 0
    /\ skip = 0
    /\ pkt = EmptyPacket
    /\ retpos = -1
    /\ hd = NoHeader
    /\ before = IobufOpen
    /\ ret = [op |-> "none", val |-> 0]

\* p = parse_sig_subpkt( buffer, reqtype, &n )
parse_sig_subpkt_call(reqtype, junk) ==
    /\ ~sub.done
    /\ sub' = [sub EXCEPT !.reqtype = reqtype, !.done = TRUE,
                          !.res = parse_sig_subpkt(sub.buffer, reqtype, junk)]
    /\ UNCHANGED <<inp, layout, io, out, list_mode, pc, arg, rc, skip, pkt,
                   retpos, hd, before, ret>>

NextScan ==
    \E reqtype \in ScanTypes, junk \in JunkBytes :
        parse_sig_subpkt_call(reqtype, junk)

SpecScan == InitScan /\ [][NextScan]_vars

(***************************************************************************)
(* Body probes: sources of one packet each, as a rule a legacy header     *)
(* with a two-byte length and a body chosen for the parser of its type.    *)
(* The operations are those of Spec.                                       *)
(***************************************************************************)
OldPacket(type, body) ==
    <<128 + 4 * type + 1, Len(body) \div 256, Len(body) % 256>> \o body

\* k bytes of notation subpackets
RECURSIVE PadTo(_)
PadTo(k) ==
    IF k = 0 THEN <<>>
    ELSE IF k = 1 THEN <<0>>
    ELSE IF k <= 150 THEN <<k - 1, 20>> \o Fill(k - 2)
    ELSE <<149, 20>> \o Fill(148) \o PadTo(k - 150)

\* a version 4 signature with a hashed area of n bytes: a creation time and
\* notations; the issuer in the unhashed area, one RSA MPI
SigV4Packet(n) ==
    OldPacket(PKT_SIGNATURE,
        <<4, 0, 1, 2, n \div 256, n % 256, 5, 2, 95, 0, 0, 0>> \o PadTo(n - 6)
        \o <<0, 10, 9, 16, 1, 35, 69, 103, 137, 171, 205, 239>>
        \o <<171, 205, 0, 8, 128>>)

AreaLengths == {6, 255, 256, 300}

\* a version 4 signature without a hashed area and without an issuer: the
\* unhashed area holds one notation
SigV4Bare ==
    OldPacket(PKT_SIGNATURE,
        <<4, 0, 1, 2, 0, 0, 0, 4, 3, 20, 1, 2, 171, 205, 0, 8, 128>>)

\* a version 3 signature of 16 bytes, the least pktlen that parse_signature
\* takes, which ends before its digest algorithm byte; a user id packet
\* follows it
SigV3Short ==
    OldPacket(PKT_SIGNATURE,
        <<3, 5, 0, 95, 0, 0, 0, 1, 35, 69, 103, 137, 171, 205, 239,
          PUBKEY_ALGO_RSA>>)
    \o <<128 + 4 * PKT_USER_ID, 6, 65, 0, 8, 66, 67, 68>>

\* the parsers that test the length and the version of a body: the packet
\* type, the least pktlen and the versions they take
BodyLimits ==
    {<<PKT_SYMKEY_ENC, 4, {4}>>, <<PKT_PUBKEY_ENC, 12, {2, 3}>>,
     <<PKT_SIGNATURE, 16, {2, 3, 4}>>, <<PKT_ONEPASS_SIG, 13, {3}>>,
     <<PKT_PUBLIC_CERT, 12, {2, 3, 4}>>, <<PKT_SECRET_CERT, 12, {2, 3, 4}>>}

\* bodies one byte too short, of version 3 and of version 4, and bodies of
\* version 9
InvalidBodies ==
    {OldPacket(l[1], <<3>> \o Fill(l[2] - 2)) : l \in BodyLimits}
    \cup {OldPacket(l[1], <<4>> \o Fill(l[2] - 2)) : l \in BodyLimits}
    \cup {OldPacket(l[1], <<9>> \o Fill(l[2] + 3)) : l \in BodyLimits}

\* public subkey packets that hold an old comment, which starts with '#':
\* whole, cut short, and of indeterminate length
CommentCerts ==
    {OldPacket(PKT_PUBKEY_SUBCERT, <<35, 65, 66>>),
     SubSeq(OldPacket(PKT_PUBKEY_SUBCERT, <<35, 65, 66>>), 1, 5),
     <<128 + 4 * PKT_PUBKEY_SUBCERT + 3, 35, 65, 66>>}

\* symkey-enc packets of version 4: the S2K modes, and body lengths around
\* the limits of the parser
SymkeyProbes ==
    {OldPacket(PKT_SYMKEY_ENC, <<4, 7, mode, 2>> \o Fill(n - 4)) :
        mode \in {0, 1, 4, 9}, n \in {4, 12, 16, 17, 200, 201, 202}}

\* the IV of the protected secret keys
Iv8 == <<17, 34, 51, 68, 85, 102, 119, 136>>

\* the protection fields of a secret key: none, an algorithm and the IV,
\* the S2K escape 255 with the modes 0, 1, 4 and an unknown one, an IV cut
PubkeyProtections ==
    {<<0>>, <<1>> \o Iv8, <<CIPHER_ALGO_BLOWFISH160>> \o Iv8,
     <<255, 1, 0, 2>> \o Iv8,
     <<255, CIPHER_ALGO_BLOWFISH160, 1, 2>> \o Fill(8) \o Iv8,
     <<255, 1, 4, 2>> \o Fill(8) \o <<0, 0, 0, 96>> \o Iv8,
     <<255, 1, 9, 2>> \o Iv8,
     <<CIPHER_ALGO_BLOWFISH160, 17, 34>>}

\* a version 3 secret key of the algorithm: the public numbers, the
\* protection fields, the secret numbers and the checksum; every number is
\* an MPI of 8 bits
SecretCert(algo, protection) ==
    LET mpi == <<0, 8, 193>>
        public == IF is_RSA(algo) THEN mpi \o mpi
                  ELSE IF algo = PUBKEY_ALGO_DSA THEN mpi \o mpi \o mpi \o mpi
                  ELSE mpi \o mpi \o mpi
        secret == IF is_RSA(algo) THEN mpi \o mpi \o mpi \o mpi ELSE mpi
    IN  OldPacket(PKT_SECRET_CERT,
            <<3, 0, 0, 0, 1, 0, 0, algo>> \o public \o protection
            \o (IF Len(protection) = 3 THEN <<>> ELSE secret \o <<18, 52>>))

SecretCerts ==
    {SecretCert(algo, protection) :
        algo \in {PUBKEY_ALGO_RSA, PUBKEY_ALGO_ELGAMAL, PUBKEY_ALGO_DSA},
        protection \in PubkeyProtections}

BodyProbes ==
    {SigV4Packet(n) : n \in AreaLengths}
    \cup {SigV4Bare, SigV3Short}
    \cup SecretCerts
    \cup InvalidBodies
    \cup CommentCerts
    \cup SymkeyProbes
    \cup {Flatten(<<p>>) : p \in Names}

InitBody == \E d \in BodyProbes : InitWith(<<>>, d)

SpecBody == InitBody /\ [][Next]_vars

(***************************************************************************)
(* Properties.                                                             *)
(***************************************************************************)
\* parse_packet or search_packet has returned val and nothing happened since
Returned(op, val) == pc = "idle" /\ ret = [op |-> op, val |-> val]

\* the last dispatcher call found the source at its end when it went for
\* the ctb byte: nothing was read, nothing is left
AtEndOfStream ==
    /\ hd.hdr = <<>>
    /\ iobuf_tell(before) = Len(inp)
    /\ iobuf_tell(io) = Len(inp)

\* C1: parse_packet and search_packet return -1 only when the source is at
\* end-of-stream at the moment the header decoder goes for the ctb byte of
\* the next packet; a stream that ends inside a packet body is reported
\* with a positive code, never with -1.
C1_MinusOneOnlyAtEndOfStream ==
    (Returned("parse_packet", -1) \/ Returned("search_packet", -1))
        => AtEndOfStream

\* C2: on a well-formed stream parse_packet returns -1 exactly when every
\* byte of the source has been consumed, and not before.
C2_MinusOneWhenExhausted ==
    WellFormed(layout) /\ Returned("parse_packet", -1)
        => iobuf_tell(io) = Len(inp)

\* the last dispatcher call decoded the header of a definite-length packet
\* whose body the source holds in full, and did not fail to write
DefiniteLengthPacket ==
    /\ pc # "fatal"
    /\ hd.st = 0
    /\ Len(hd.hdr) >= 2
    /\ before.mode = "none"
    /\ hd.mode = "none"
    /\ hd.pktlen >= 0
    /\ iobuf_tell(before) + hd.hdrlen + hd.pktlen <= Len(inp)
    /\ rc # G10ERR_WRITE_FILE

\* C3: for every definite-length packet the source offset after one call of
\* the dispatcher is the offset before it plus the header bytes plus the
\* declared body length pktlen.
C3_OffsetAfterPacket ==
    DefiniteLengthPacket
        => iobuf_tell(io) = iobuf_tell(before) + hd.hdrlen + hd.pktlen

\* the bytes of the packets of layout l that have a nonzero type tag
RECURSIVE NonzeroTagBytes(_)
NonzeroTagBytes(l) ==
    IF Len(l) = 0 THEN <<>>
    ELSE (IF Catalogue[l[1]].type # 0 THEN Catalogue[l[1]].bytes ELSE <<>>)
         \o NonzeroTagBytes(Tail(l))

\* copy_all_packets was called on the source at offset 0 with a sink that
\* takes every write, and has returned
CopiedAll ==
    /\ pc = "idle"
    /\ ret.op = "copy_all_packets"
    /\ arg.op = "copy_all_packets"
    /\ arg.start = 0
    /\ arg.ok

\* C4: copy_all_packets writes, for every packet with a nonzero type tag and
\* in input order, the header bytes followed by the body bytes unchanged,
\* and nothing for the packets with type tag 0.
C4_CopyIsIdentity ==
    WellFormed(layout) /\ CopiedAll => out = NonzeroTagBytes(layout)

\* search_packet was called at a packet boundary of a well-formed stream
\* and has returned 0
SearchFound ==
    /\ WellFormed(layout)
    /\ arg.op = "search_packet"
    /\ arg.start \in Boundaries(layout)
    /\ Returned("search_packet", 0)

\* C5: when search_packet for type T returns 0, the returned packet has type
\* T, pos is the offset of the ctb byte of that packet, a packet of the
\* stream, and the packets before it were consumed in full: the search went
\* from packet boundary to packet boundary.
C5_SearchReturnsRequestedPacket ==
    SearchFound =>
        /\ pkt.pkttype = arg.reqtype
        /\ \E i \in 1..Len(layout) :
              /\ StartOf(layout, i) = retpos
              /\ StartOf(layout, i) >= arg.start
              /\ Catalogue[layout[i]].type = arg.reqtype

\* parse_packet's last dispatcher call met a definite-length packet whose
\* nonzero type tag is not one of the known types
UnknownTypePacket ==
    /\ arg.op = "parse_packet"
    /\ DefiniteLengthPacket
    /\ hd.pkttype # 0
    /\ hd.pkttype \notin KnownTypes

\* C6: a correctly framed packet of an unknown nonzero type is not an error:
\* the dispatcher consumes its whole body and reports it as skipped, and
\* parse_packet does not return a positive error code because of it.
C6_UnknownTypeIsSkipped ==
    UnknownTypePacket =>
        /\ iobuf_tell(io) = iobuf_tell(before) + hd.hdrlen + hd.pktlen
        /\ skip = 1
        /\ rc <= 0

\* parse_packet has returned val from the packet at place i of the stream, a
\* well-formed packet of a known type
ReturnedFromKnown(i, val) ==
    /\ WellFormed(layout)
    /\ Returned("parse_packet", val)
    /\ hd.hdr # <<>>
    /\ iobuf_tell(before) = StartOf(layout, i)
    /\ Catalogue[layout[i]].type \in KnownTypes

\* C7: for a well-formed packet of every known type, ring trust included,
\* parse_packet returns 0.
C7_KnownTypeReturnsZero ==
    \A i \in 1..Len(layout) :
        ReturnedFromKnown(i, ret.val) => ret.val = 0

\* the last dispatcher call decoded the header at the head of the source
HeaderDecoded ==
    /\ pc # "fatal"
    /\ hd.hdr # <<>>
    /\ hd.st = 0
    /\ iobuf_tell(before) = 0
    /\ before.mode = "none"

NewFormatDecoded == HeaderDecoded /\ hd.pgp3

LegacyDecoded == HeaderDecoded /\ ~hd.pgp3

\* the word w is the big-endian value of the bytes b1 b2 b3 b4
IsBigEndian4(w, b1, b2, b3, b4) ==
    /\ Hi16(w) = b1 * 256 + b2
    /\ Lo16(w) = b3 * 256 + b4

\* C8: a new-format first length byte c in 0..191 gives pktlen = c with no
\* further byte; c in 192..223 gives pktlen = (c-192)*256 + d + 192 with one
\* further byte d; c = 255, and only c = 255, gives pktlen = the next four
\* bytes read big-endian.
C8_NewFormatLength ==
    NewFormatDecoded =>
        /\ inp[2] <= 191 => hd.hdrlen = 2 /\ hd.pktlen = inp[2]
        /\ inp[2] \in 192..223 =>
              /\ hd.hdrlen = 3
              /\ hd.pktlen = (inp[2] - 192) * 256 + inp[3] + 192
        /\ inp[2] = 255 /\ Len(inp) >= 6 =>
              /\ hd.hdrlen = 6
              /\ IsBigEndian4(hd.pktlen, inp[3], inp[4], inp[5], inp[6])
        /\ hd.hdrlen = 6 => inp[2] = 255

\* C9: for a new-format first length byte c in 224..254, and for no other
\* c, the header decoder reads no further length byte, puts the source into
\* partial mode with the initial chunk size 2^(c-224) and sets pktlen to 0.
C9_PartialBodyLength ==
    NewFormatDecoded =>
        /\ hd.mode = "partial" <=> inp[2] \in 224..254
        /\ inp[2] \in 224..254 =>
              /\ hd.hdrlen = 2
              /\ hd.chunk = 2 ^ (inp[2] - 224)
              /\ hd.pktlen = 0

\* C10: a legacy-format header has the type (ctb>>2)&0xF and a length field
\* of 1, 2 or 4 bytes for ctb&3 = 0, 1, 2, decoded as a big-endian unsigned
\* value; for ctb&3 = 3 no length byte is read, pktlen is 0 and the source
\* is in block mode if and only if the type is not compressed.
C10_LegacyHeader ==
    LegacyDecoded =>
        /\ hd.pkttype = (inp[1] \div 4) % 16
        /\ hd.hdr = SubSeq(inp, 1, hd.hdrlen)
        /\ inp[1] % 4 = 0 =>
              hd.hdrlen = 2 /\ hd.pktlen = inp[2] /\ hd.mode = "none"
        /\ inp[1] % 4 = 1 =>
              /\ hd.hdrlen = 3
              /\ hd.pktlen = inp[2] * 256 + inp[3]
              /\ hd.mode = "none"
        /\ inp[1] % 4 = 2 =>
              /\ hd.hdrlen = 5
              /\ IsBigEndian4(hd.pktlen, inp[2], inp[3], inp[4], inp[5])
              /\ hd.mode = "none"
        /\ inp[1] % 4 = 3 =>
              /\ hd.hdrlen = 1
              /\ hd.pktlen = 0
              /\ hd.mode = IF hd.pkttype # PKT_COMPRESSED THEN "block"
                                                           ELSE "none"

\* a legacy header with a four-byte length of 2^24 or more was decoded
C10_Witness4 ==
    LegacyDecoded /\ inp[1] % 4 = 2 /\ Hi16(hd.pktlen) > 255

\* the source does not begin with a well-framed header: the high bit of the
\* first byte is clear, or the source ends inside the length field
InvalidFraming ==
    \/ inp[1] < 128
    \/ /\ inp[1] >= 128
       /\ (inp[1] \div 64) % 2 = 0
       /\ inp[1] % 4 # 3
       /\ Len(inp) < 1 + 2 ^ (inp[1] % 4)
    \/ /\ inp[1] >= 192
       /\ \/ Len(inp) = 1
          \/ Len(inp) = 2 /\ inp[2] \in 192..223
          \/ Len(inp) \in 2..5 /\ inp[2] = 255

\* a dispatcher call that began at the head of the source has ended
FirstCallEnded == hd.hdr # <<>> /\ iobuf_tell(before) = 0

\* C11: invalid framing (high bit of the ctb clear, or the stream ending
\* inside the length field) always ends in the invalid-packet error, with no
\* body parser at work and no parsed packet.
C11_InvalidFraming ==
    InvalidFraming /\ FirstCallEnded =>
        /\ pc # "fatal"
        /\ rc = G10ERR_INVALID_PACKET
        /\ skip = 0
        /\ pkt = EmptyPacket

\* the offset in the buffer of subpacket i of area a (the buffer's first
\* byte has offset 0)
RECURSIVE SubpktStart(_, _)
SubpktStart(a, i) ==
    IF i = 1 THEN 2
    ELSE SubpktStart(a, i - 1) + Len(SubpktCatalogue[a[i - 1]].bytes)

\* the subpackets of area a whose low seven type bits are t
Matching(a, t) == {i \in 1..Len(a) : SubpktCatalogue[a[i]].type = t}

FirstMatching(a, t) == CHOOSE i \in Matching(a, t) : \A j \in Matching(a, t) : i <= j

\* a scan for the creation time or the issuer of an area of whole subpackets
ScannedFor ==
    /\ sub.done
    /\ sub.reqtype \in {SIGSUBPKT_SIG_CREATED, SIGSUBPKT_ISSUER}
    /\ \A i \in 1..Len(sub.area) : SubpktCatalogue[sub.area[i]].wf

\* C12: a scan for the creation time or the issuer returns the payload,
\* without the type byte, of the first subpacket whose low seven type bits
\* are the requested type, whichever of the three length forms the
\* subpackets have, and NULL when the area has no such subpacket.
C12_FindsFirstSubpacket ==
    ScannedFor =>
        LET Payload(i) ==
                /\ sub.res.p = SubpktStart(sub.area, i)
                                   + SubpktCatalogue[sub.area[i]].at + 1
                /\ sub.res.n = SubpktCatalogue[sub.area[i]].len
        IN  IF Matching(sub.area, sub.reqtype) = {} THEN sub.res.p = 0
            ELSE Payload(FirstMatching(sub.area, sub.reqtype))

\* C13: whatever bytes the area holds, the scan reads no byte outside the
\* area, comes to an end, and a slice it returns lies inside the area with
\* the length it reports.
C13_ScanStaysInsideArea ==
    sub.done =>
        /\ ~sub.res.oob
        /\ sub.res.p # 0 =>
               /\ sub.res.p >= 3
               /\ sub.res.n >= 0
               /\ sub.res.p + sub.res.n - 1 <= Len(sub.buffer)

\* the length that the two bytes in front of a stored area stand for
PrefixLength(buf) == buf[1] * 256 + buf[2]

\* a version 4 signature was parsed without error
SignatureV4Parsed ==
    /\ pc # "fatal"
    /\ hd.hdr # <<>>
    /\ rc = 0
    /\ pkt.body.kind = "signature"
    /\ pkt.body.version = 4

\* C14: a nonempty hashed or unhashed area of a version 4 signature is
\* stored as the two-byte big-endian encoding of its length n and the n
\* bytes read, so that the stored prefix decodes back to n.
C14_StoredPrefixRoundTrip ==
    SignatureV4Parsed =>
        \A buf \in {pkt.body.hashed_data, pkt.body.unhashed_data} :
            buf # NoBuffer => PrefixLength(buf) = Len(buf) - 2

\* the packets of layout l whose header starts before offset off
StartingBefore(l, off) ==
    SubSeq(l, 1, Cardinality({i \in 1..Len(l) : StartOf(l, i) < off}))

\* copy_some_packets was called on a well-formed source at offset 0 with a
\* sink that takes every write
CopyingSome ==
    /\ WellFormed(layout)
    /\ arg.op = "copy_some_packets"
    /\ arg.start = 0
    /\ arg.ok
    /\ pc # "fatal"

\* C15: copy_some_packets writes no packet whose header starts at or after
\* stopoff, and when it has returned, the packets that start before stopoff
\* are copied whole, also the one that extends past stopoff.
C15_StopsAtStopoff ==
    CopyingSome =>
        LET wanted == NonzeroTagBytes(StartingBefore(layout, arg.stopoff))
        IN  /\ Len(out) <= Len(wanted)
            /\ out = SubSeq(wanted, 1, Len(out))
            /\ pc = "idle" => out = wanted

\* the last dispatcher call handed the body to the parser of its type, and
\* the record does not lend the source to a consumer
BodyParserReturned ==
    /\ pc # "fatal"
    /\ hd.hdr # <<>>
    /\ hd.st = 0
    /\ before.mode = "none"
    /\ skip = 0
    /\ pkt.pkttype \in KnownTypes
    /\ ~Borrowed(pkt)

\* C16: a body parser leaves the source at the next packet boundary, and
\* out of block mode if the packet entered it, on success and on the
\* recoverable errors alike.
C16_ParserLeavesAtBoundary ==
    BodyParserReturned =>
        /\ hd.mode # "none" => ~iobuf_in_block_mode(io)
        /\ DefiniteLengthPacket =>
               iobuf_tell(io) = iobuf_tell(before) + hd.hdrlen + hd.pktlen

\* the source is one packet with a legacy header and a two-byte length, of
\* a type whose parser tests length and version, and its body is too short
\* or of a version the parser does not take
InvalidBody ==
    /\ Len(inp) >= 4
    /\ inp[1] \in 128..191
    /\ inp[1] % 4 = 1
    /\ \E l \in BodyLimits :
           /\ (inp[1] - 128) \div 4 = l[1]
           /\ inp[2] * 256 + inp[3] = Len(inp) - 3
           /\ \/ Len(inp) - 3 < l[2]
              \/ inp[4] \notin l[3]

\* C17: when the body of a symkey-enc, pubkey-enc, signature, one-pass
\* signature or key certificate packet is too short or of an unknown
\* version, the dispatcher returns a positive error code, not 0.
C17_InvalidBodyIsError ==
    InvalidBody /\ FirstCallEnded /\ pc # "fatal" /\ skip = 0
        /\ pkt.pkttype # 0
        => rc > 0

\* C18: list mode has no effect on parsing: with list mode on and with list
\* mode off the dispatcher call that the operation in progress makes next
\* ends alike, with the same return code and at the same source offset.
C18_ListModeHasNoEffect ==
    pc \notin {"idle", "fatal"} =>
        \A junk \in JunkBytes :
            LET Alike(on, off) ==
                    /\ on.s.fatal = off.s.fatal
                    /\ on.rc = off.rc
                    /\ iobuf_tell(on.s) = iobuf_tell(off.s)
            IN  Alike(ParseWith(TRUE, junk), ParseWith(FALSE, junk))

\* C19: a symkey-enc record is produced only for a body length pktlen of at
\* least 4 and at most 200.
C19_SymkeyLengthLimits ==
    pkt.body.kind = "symkey_enc" /\ hd.hdr # <<>> =>
        hd.pktlen >= 4 /\ hd.pktlen <= 200

\* the source is a secret key of the probes, and it was parsed without error
SecretCertParsed ==
    /\ inp \in SecretCerts
    /\ FirstCallEnded
    /\ pc # "fatal"
    /\ rc = 0
    /\ pkt.body.kind = "secret_cert"

\* the protection algorithm byte of a secret key of the probes: the byte
\* after the public numbers
ProtectionByte ==
    inp[12 + (IF is_RSA(inp[11]) THEN 6
              ELSE IF inp[11] = PUBKEY_ALGO_DSA THEN 12 ELSE 9)]

\* C20: a secret key certificate of either algorithm that parses without
\* error is marked protected and holds the 8 IV bytes in protect.iv if and
\* only if its protection algorithm byte is nonzero.
C20_ProtectedIffAlgoNonzero ==
    SecretCertParsed =>
        (ProtectionByte # 0 <=> pkt.body.is_protected = 1 /\ pkt.body.iv = Iv8)

\* the bytes of a stored subpacket area, without the two bytes in front
AreaOf(buf) == IF buf = NoBuffer THEN <<>> ELSE SubSeq(buf, 3, Len(buf))

\* the payload of the first subpacket of the type in an area, by the wire
\* format of subpackets: a length of one, two or five bytes that counts the
\* type byte and the payload; <<>> when the area holds none
RECURSIVE PayloadOf(_, _)
PayloadOf(area, type) ==
    IF area = <<>> THEN <<>>
    ELSE
      LET hl == IF area[1] = 255 THEN 5 ELSE IF area[1] >= 192 THEN 2 ELSE 1
          n == IF Len(area) < hl THEN 0
               ELSE IF hl = 5 THEN U32(area[2], area[3], area[4], area[5])
               ELSE IF hl = 2 THEN (area[1] - 192) * 256 + area[2] + 192
               ELSE area[1]
      IN  IF n <= 0 \/ Len(area) < hl + n THEN <<>>
          ELSE IF area[hl + 1] % 128 = type THEN SubSeq(area, hl + 2, hl + n)
          ELSE PayloadOf(SubSeq(area, hl + n + 1, Len(area)), type)

\* parse_packet has returned from a whole version 4 signature packet
SignatureV4Returned ==
    /\ pc = "idle"
    /\ ret.op = "parse_packet"
    /\ FirstCallEnded
    /\ inp \in {SigV4Packet(n) : n \in AreaLengths} \cup {SigV4Bare}

\* C21: for a version 4 signature the parser returns success; the timestamp
\* of the record is the big-endian value of the four payload bytes of the
\* creation-time subpacket of the hashed area, and the key id is the eight
\* payload bytes of the issuer subpacket of the unhashed area; a field whose
\* subpacket or whole area is absent is left unset.
C21_FieldsFromSubpackets ==
    SignatureV4Returned =>
        LET created == PayloadOf(AreaOf(pkt.body.hashed_data),
                                 SIGSUBPKT_SIG_CREATED)
            issuer == PayloadOf(AreaOf(pkt.body.unhashed_data),
                                SIGSUBPKT_ISSUER)
        IN  /\ rc = 0
            /\ pkt.body.kind = "signature"
            /\ pkt.body.timestamp =
                   IF Len(created) >= 4
                     THEN U32(created[1], created[2], created[3], created[4])
                     ELSE 0
            /\ pkt.body.keyid =
                   IF Len(issuer) >= 8
                     THEN <<U32(issuer[1], issuer[2], issuer[3], issuer[4]),
                            U32(issuer[5], issuer[6], issuer[7], issuer[8])>>
                     ELSE <<0, 0>>

\* the end of the packet of the last dispatcher call: its header and pktlen
\* body bytes
PacketEnd == iobuf_tell(before) + hd.hdrlen + hd.pktlen

\* C22: in a body parser of a packet of definite length pktlen never wraps
\* below zero: no field is read when fewer bytes are left in the packet
\* than it needs, and skip_rest consumes no more than what was left, so the
\* parser reads no byte behind the end of the packet.
C22_PktlenNeverWraps ==
    BodyParserReturned /\ DefiniteLengthPacket =>
        iobuf_tell(io) <= PacketEnd

\* parse_symkeyenc built a record: the body passed the tests of length,
\* version and S2K mode
SymkeyRecord == hd.hdr # <<>> /\ pkt.body.kind = "symkey_enc"

\* C23: in parse_symkeyenc the assertion that pktlen is zero after the
\* session key never fails: for every body that passes the length, version
\* and S2K mode tests, the salt, the count and the seskeylen = pktlen -
\* minlen session key bytes use up the remaining length exactly.
C23_AssertNeverFails ==
    SymkeyRecord =>
        /\ ~pkt.body.assert_failed
        /\ pc # "fatal" =>
               Len(pkt.body.seskey) = pkt.body.seskeylen
               /\ hd.pktlen = 4 + S2kMinlen(pkt.body.s2k_mode)
                                + pkt.body.seskeylen

\* an iterated and salted symkey-enc packet with a session key was parsed:
\* salt, count and session key were read and the assertion passed
C23_Witness ==
    /\ SymkeyRecord
    /\ pc = "idle"
    /\ ret = [op |-> "parse_packet", val |-> 0]
    /\ pkt.body.s2k_mode = 4
    /\ pkt.body.seskeylen > 0
    /\ Len(pkt.body.s2k_salt) = 8
    /\ ~pkt.body.assert_failed

====
